---------------------------- MODULE Spec2Model ----------------------------
(***************************************************************************)
(* Model of the mocktioneer core: the mediation engine                     *)
(* (crates/mocktioneer-core/src/mediation.rs), the JWKS key-set cache and  *)
(* signature verification (crates/mocktioneer-core/src/verification.rs),   *)
(* the auction handler (routes.rs) and the bid synthesizer (auction.rs).   *)
(*                                                                         *)
(* Strings that the code inspects character by character (encoded prices)  *)
(* are sequences of one-character strings; byte strings are sequences of   *)
(* numbers 0..255.  An f64 is a record [k, n, e]: k = "fin" stands for the *)
(* decimal n / 10^e in lowest form, k = "nan", "inf", "ninf" for the       *)
(* special values.  The decimals used are short enough to be told apart    *)
(* by an f64, so the exact decimal stands for the f64 nearest to it.      *)
(***************************************************************************)
EXTENDS Integers, Sequences, FiniteSets, TLC

VARIABLES
    request,      \* MediationRequest handed to mediate_auction
    base_host,    \* base_host argument of mediate_auction
    phase,        \* "build": caller assembles the request; "done": mediate_auction returned
    result,       \* Result<OpenRTBResponse, String> of mediate_auction, or None before the call
    renderCalls,  \* calls of render::iframe_html made by the mediate_auction call
    cache,        \* JWKS_CACHE: the set of domains that have an entry, with jwks and fetched_at
    now,          \* monotonic clock read by Instant::now() / elapsed(), in minutes
    lock,         \* holder of the JWKS_CACHE mutex, or None
    callers,      \* per caller: position inside get_cached_jwks and its locals
    fetches,      \* number of fetch_jwks calls issued, per domain
    served,       \* version of the key set the JWKS server of each domain currently serves
    auction,      \* per task: position inside handle_openrtb_auction, its request and outcome
    synth         \* the last call of a function of auction.rs: its name, arguments and result

mvars == <<request, base_host, phase, result, renderCalls>>
jvars == <<cache, now, lock, callers, fetches, served>>
avars == <<auction, synth>>
vars == <<request, base_host, phase, result, renderCalls,
          cache, now, lock, callers, fetches, served, auction, synth>>

None == [k |-> "none"]
Some(v) == [k |-> "some", v |-> v]
IsSome(o) == o.k = "some"

-----------------------------------------------------------------------------
(* f64 values and their comparison                                         *)

RECURSIVE Pow10(_)
Pow10(x) == IF x = 0 THEN 1 ELSE 10 * Pow10(x - 1)

RECURSIVE Fin(_, _)
\* the decimal n / 10^e, in lowest form
Fin(n, e) ==
    IF e > 0 /\ n % 10 = 0 THEN Fin(n \div 10, e - 1)
    ELSE [k |-> "fin", n |-> n, e |-> e]

NaN == [k |-> "nan", n |-> 0, e |-> 0]
Inf == [k |-> "inf", n |-> 0, e |-> 0]
NegInf == [k |-> "ninf", n |-> 0, e |-> 0]

Max2(a, b) == IF a >= b THEN a ELSE b

\* f64::partial_cmp: "none" when either side is NaN
partial_cmp(a, b) ==
    IF a.k = "nan" \/ b.k = "nan" THEN "none"
    ELSE IF a.k = b.k /\ a.k # "fin" THEN "equal"
    ELSE IF a.k = "inf" \/ b.k = "ninf" THEN "greater"
    ELSE IF a.k = "ninf" \/ b.k = "inf" THEN "less"
    ELSE LET m == Max2(a.e, b.e)
             x == a.n * Pow10(m - a.e)
             y == b.n * Pow10(m - b.e)
         IN IF x > y THEN "greater" ELSE IF x < y THEN "less" ELSE "equal"

\* the f64 operator >=
FGe(a, b) == partial_cmp(a, b) \in {"greater", "equal"}
FGt(a, b) == partial_cmp(a, b) = "greater"
FLt(a, b) == partial_cmp(a, b) = "less"

\* format!("{:.2}", b): two decimals, ties to even on the exact decimal
Fmt2(a) ==
    IF a.k # "fin" THEN [k |-> a.k, n |-> 0, e |-> 2]
    ELSE IF a.e <= 2 THEN [k |-> "fin", n |-> a.n * Pow10(2 - a.e), e |-> 2]
    ELSE LET p == Pow10(a.e - 2)
             m == IF a.n < 0 THEN 0 - a.n ELSE a.n
             q == m \div p
             r == m % p
             up == (2 * r > p) \/ (2 * r = p /\ q % 2 = 1)
             v == IF up THEN q + 1 ELSE q
         IN [k |-> "fin", n |-> (IF a.n < 0 THEN 0 - v ELSE v), e |-> 2]

-----------------------------------------------------------------------------
(* base64 STANDARD decoding, UTF-8 validation and f64 parsing              *)

B64Alphabet ==
    << "A","B","C","D","E","F","G","H","I","J","K","L","M","N","O","P",
       "Q","R","S","T","U","V","W","X","Y","Z","a","b","c","d","e","f",
       "g","h","i","j","k","l","m","n","o","p","q","r","s","t","u","v",
       "w","x","y","z","0","1","2","3","4","5","6","7","8","9","+","/" >>

\* symbol -> its 6-bit value
B64Table ==
    [c \in {B64Alphabet[i] : i \in 1..64} |->
        (CHOOSE i \in 1..64 : B64Alphabet[i] = c) - 1]

IsB64(c) == c \in DOMAIN B64Table
B64Val(c) == B64Table[c]

RECURSIVE B64Quads(_, _)
\* the bytes of the complete, unpadded quantums s[i..i+3], s[i+4..i+7], ...
B64Quads(s, i) ==
    IF i + 3 > Len(s) THEN << >>
    ELSE LET a == B64Val(s[i])
             b == B64Val(s[i + 1])
             c == B64Val(s[i + 2])
             d == B64Val(s[i + 3])
         IN << a * 4 + (b \div 16), (b % 16) * 16 + (c \div 4), (c % 4) * 64 + d >>
            \o B64Quads(s, i + 4)

\* STANDARD.decode: canonical padding required, no symbol outside the
\* alphabet, no non-zero trailing bits.  Some(bytes) or None (DecodeError).
B64Decode(s) ==
    LET n == Len(s)
        pad == IF n >= 2 /\ s[n] = "=" /\ s[n - 1] = "=" THEN 2
               ELSE IF n >= 1 /\ s[n] = "=" THEN 1 ELSE 0
        body == SubSeq(s, 1, n - pad)
        full == (Len(body) \div 4) * 4
        tail == SubSeq(body, full + 1, Len(body))
    IN IF n % 4 # 0 \/ \E i \in 1..Len(body) : ~IsB64(body[i]) THEN None
       ELSE IF pad = 0 THEN Some(B64Quads(body, 1))
       ELSE IF pad = 1 THEN
            LET a == B64Val(tail[1])
                b == B64Val(tail[2])
                c == B64Val(tail[3])
            IN IF c % 4 # 0 THEN None
               ELSE Some(B64Quads(SubSeq(body, 1, full), 1)
                         \o << a * 4 + (b \div 16), (b % 16) * 16 + (c \div 4) >>)
       ELSE LET a == B64Val(tail[1])
                b == B64Val(tail[2])
            IN IF b % 16 # 0 THEN None
               ELSE Some(B64Quads(SubSeq(body, 1, full), 1) \o << a * 4 + (b \div 16) >>)

IsCont(b) == b \in 128..191

RECURSIVE IsUtf8(_, _)
\* std::str::from_utf8 succeeds on bytes[i..]
IsUtf8(bytes, i) ==
    IF i > Len(bytes) THEN TRUE
    ELSE LET b == bytes[i]
             has(k) == i + k <= Len(bytes)
         IN IF b < 128 THEN IsUtf8(bytes, i + 1)
            ELSE IF b \in 194..223 THEN
                 has(1) /\ IsCont(bytes[i + 1]) /\ IsUtf8(bytes, i + 2)
            ELSE IF b \in 224..239 THEN
                 /\ has(2)
                 /\ IsCont(bytes[i + 1]) /\ IsCont(bytes[i + 2])
                 /\ (b = 224 => bytes[i + 1] >= 160)
                 /\ (b = 237 => bytes[i + 1] <= 159)
                 /\ IsUtf8(bytes, i + 3)
            ELSE IF b \in 240..244 THEN
                 /\ has(3)
                 /\ IsCont(bytes[i + 1]) /\ IsCont(bytes[i + 2]) /\ IsCont(bytes[i + 3])
                 /\ (b = 240 => bytes[i + 1] >= 144)
                 /\ (b = 244 => bytes[i + 1] <= 143)
                 /\ IsUtf8(bytes, i + 4)
            ELSE FALSE

IsDigit(b) == b \in 48..57
Lower(b) == IF b \in 65..90 THEN b + 32 ELSE b
LowerAll(s) == [i \in 1..Len(s) |-> Lower(s[i])]

RECURSIVE DigitsEnd(_, _)
\* index just after the run of ASCII digits that starts at i
DigitsEnd(s, i) == IF i <= Len(s) /\ IsDigit(s[i]) THEN DigitsEnd(s, i + 1) ELSE i

RECURSIVE DigitsVal(_, _, _)
\* value of the digits s[i..j-1]
DigitsVal(s, i, j) ==
    IF j <= i THEN 0 ELSE DigitsVal(s, i, j - 1) * 10 + (s[j - 1] - 48)

\* <f64 as FromStr>::from_str on the bytes s: Some(value) or None (ParseFloatError)
\*   [+-] ( inf | infinity | nan | digits [. digits] [(e|E) [+-] digits] )
ParseF64(s) ==
    LET n == Len(s)
        signed == n >= 1 /\ s[1] \in {43, 45}
        neg == n >= 1 /\ s[1] = 45
        p == IF signed THEN 2 ELSE 1
        word == LowerAll(SubSeq(s, p, n))
        i1 == DigitsEnd(s, p)                       \* end of integer digits
        dot == i1 <= n /\ s[i1] = 46
        f0 == IF dot THEN i1 + 1 ELSE i1
        i2 == DigitsEnd(s, f0)                      \* end of fraction digits
        nfrac == i2 - f0
        hasExp == i2 <= n /\ s[i2] \in {101, 69}
        esigned == hasExp /\ i2 + 1 <= n /\ s[i2 + 1] \in {43, 45}
        eneg == esigned /\ s[i2 + 1] = 45
        x0 == IF esigned THEN i2 + 2 ELSE i2 + 1
        x1 == IF hasExp THEN DigitsEnd(s, x0) ELSE i2
        ex == IF hasExp THEN DigitsVal(s, x0, x1) ELSE 0
        mant == DigitsVal(s, p, i1) * Pow10(nfrac) + DigitsVal(s, f0, i2)
        sgn(v) == IF neg THEN 0 - v ELSE v
    IN IF word = <<105, 110, 102>> \/ word = <<105, 110, 102, 105, 110, 105, 116, 121>>
       THEN Some(IF neg THEN NegInf ELSE Inf)
       ELSE IF word = <<110, 97, 110>> THEN Some(NaN)
       ELSE IF (i1 - p) + nfrac = 0 THEN None        \* no mantissa digit
       ELSE IF hasExp /\ x1 = x0 THEN None           \* exponent without digits
       ELSE IF x1 # n + 1 THEN None                  \* trailing bytes
       ELSE IF eneg THEN Some(Fin(sgn(mant), nfrac + ex))
       ELSE IF ex >= nfrac THEN Some(Fin(sgn(mant) * Pow10(ex - nfrac), 0))
       ELSE Some(Fin(sgn(mant), nfrac - ex))

\* mediation::decode_aps_price: Ok(price) as Some(price), Err(_) as None
decode_aps_price(encoded) ==
    LET decoded == B64Decode(encoded)
    IN IF ~IsSome(decoded) THEN None
       ELSE IF ~IsUtf8(decoded.v, 1) THEN None
       ELSE ParseF64(decoded.v)

-----------------------------------------------------------------------------
(* mediate_auction                                                         *)

Ok(v) == [ok |-> TRUE, v |-> v]
Err(e) == [ok |-> FALSE, e |-> e]

\* variant: a bid without any price is taken at 0.0
ResolvedPriceOrZero(bid) ==
    IF IsSome(bid.encoded_price) THEN decode_aps_price(bid.encoded_price.v)
    ELSE IF IsSome(bid.price) THEN Some(bid.price.v)
    ELSE Some(Fin(0, 0))

\* variant: a decoded price that is not a finite number is refused
ResolvedPriceFinite(bid) ==
    IF IsSome(bid.encoded_price)
    THEN LET p == decode_aps_price(bid.encoded_price.v)
         IN IF IsSome(p) /\ p.v.k # "fin" THEN None ELSE p
    ELSE IF IsSome(bid.price) THEN Some(bid.price.v)
    ELSE None

\* variant: the plain price is looked at first, then the encoded one
ResolvedPricePlainFirst(bid) ==
    IF IsSome(bid.price) THEN Some(bid.price.v)
    ELSE IF IsSome(bid.encoded_price) THEN decode_aps_price(bid.encoded_price.v)
    ELSE None

\* price resolution of one bid (mediation.rs 162-201): the encoded price is
\* looked at first, then the plain one.  Some(price), or None for the two Err
ResolvedPrice(bid) ==
    IF IsSome(bid.encoded_price) THEN decode_aps_price(bid.encoded_price.v)
    ELSE IF IsSome(bid.price) THEN Some(bid.price.v)
    ELSE None

\* the Err(String) returned for a bid whose price does not resolve
PriceError(bidder, bid) ==
    IF IsSome(bid.encoded_price)
    THEN [msg |-> "Failed to decode price for impression", imp_id |-> bid.imp_id,
          bidder |-> "-"]
    ELSE [msg |-> "has no price", imp_id |-> bid.imp_id, bidder |-> bidder]

RECURSIVE Flatten(_, _)
\* the bids in the order the nested loops of lines 159-160 visit them,
\* each with the name of its bidder response
Flatten(bidder_responses, i) ==
    IF i > Len(bidder_responses) THEN << >>
    ELSE LET br == bidder_responses[i]
         IN [j \in 1..Len(br.bids) |-> [bidder |-> br.bidder, bid |-> br.bids[j]]]
            \o Flatten(bidder_responses, i + 1)

\* struct ResolvedBid
ResolvedBid(bidder, bid, resolved_price) ==
    [bidder |-> bidder, bid |-> bid, resolved_price |-> resolved_price]

RECURSIVE Collect(_, _, _)
\* the loop of lines 159-212 from the i-th bid on, acc being the resolved bids
\* pushed so far: Err at the first bid whose price does not resolve, else
\* Ok(all resolved bids in encounter order)
Collect(flat, i, acc) ==
    IF i > Len(flat) THEN Ok(acc)
    ELSE LET price == ResolvedPrice(flat[i].bid)
         IN IF ~IsSome(price) THEN Err(PriceError(flat[i].bidder, flat[i].bid))
            ELSE Collect(flat, i + 1,
                         Append(acc, ResolvedBid(flat[i].bidder, flat[i].bid, price.v)))

\* variant: bids are grouped under the bidder name
GroupKeyBidder(resolved) == resolved.bidder

\* the key under which a resolved bid is pushed into bids_by_imp
GroupKey(resolved) == resolved.bid.imp_id

\* bids_by_imp: key -> the resolved bids pushed under it, in encounter order
BidsByImp(collected) ==
    [key \in {GroupKey(collected[i]) : i \in 1..Len(collected)} |->
        SelectSeq(collected, LAMBDA r : GroupKey(r) = key)]

\* request.ext.config.and_then(|c| c.price_floor).unwrap_or(0.0)
PriceFloor(config) ==
    IF IsSome(config) /\ IsSome(config.v.price_floor) THEN config.v.price_floor.v
    ELSE Fin(0, 0)

\* variant: a bid at the floor is dropped
AboveFloorStrict(resolved, price_floor) == FGt(resolved.resolved_price, price_floor)

\* the predicate of bids.retain
AboveFloor(resolved, price_floor) == FGe(resolved.resolved_price, price_floor)

\* variant: the later bid also replaces the leader on a tie
ReduceStepLastOnTie(acc, current) ==
    IF partial_cmp(current.resolved_price, acc.resolved_price) \in {"greater", "equal"}
    THEN current ELSE acc

\* variant: the comparison is turned around, the lower bid leads
ReduceStepLower(acc, current) ==
    IF partial_cmp(current.resolved_price, acc.resolved_price) = "less"
    THEN current ELSE acc

\* the closure of reduce: the later bid replaces the leader only when greater
ReduceStep(acc, current) ==
    IF partial_cmp(current.resolved_price, acc.resolved_price) = "greater"
    THEN current ELSE acc

RECURSIVE Reduce(_, _, _)
\* Iterator::reduce from the left, acc being the result over bids[1..i-1]
Reduce(bids, acc, i) ==
    IF i > Len(bids) THEN acc ELSE Reduce(bids, ReduceStep(acc, bids[i]), i + 1)

\* variant: only the impressions whose best bid is the highest of the whole
\* request get a winner
WinningBidsOverall(bids_by_imp, price_floor) ==
    LET kept(imp_id) ==
            SelectSeq(bids_by_imp[imp_id], LAMBDA r : AboveFloor(r, price_floor))
        best(imp_id) == Reduce(kept(imp_id), kept(imp_id)[1], 2)
        live == {x \in DOMAIN bids_by_imp : Len(kept(x)) > 0}
    IN [imp_id \in {x \in live : \A y \in live :
                        ~FGt(best(y).resolved_price, best(x).resolved_price)} |->
            best(imp_id)]

\* winning_bids after the loop of lines 227-265
WinningBids(bids_by_imp, price_floor) ==
    LET kept(imp_id) ==
            SelectSeq(bids_by_imp[imp_id], LAMBDA r : AboveFloor(r, price_floor))
    IN [imp_id \in {x \in DOMAIN bids_by_imp : Len(kept(x)) > 0} |->
            Reduce(kept(imp_id), kept(imp_id)[1], 2)]

\* render::iframe_html: the template filled with its five values
iframe_html(host, crid, w, h, bid) ==
    [tmpl |-> "iframe.html.hbs", HOST |-> host, CRID |-> crid, W |-> w, H |-> h,
     BID |-> IF IsSome(bid) THEN Some(Fmt2(bid.v)) ELSE None]

\* variant: the creative is generated for every winner
NeedsRenderAlways(bid) == TRUE

\* does build_openrtb_response call iframe_html for this winning bid
NeedsRender(bid) == ~IsSome(bid.adm)

\* the arguments of that call
RenderArgs(imp_id, resolved, host) ==
    [host |-> host,
     crid |-> IF IsSome(resolved.bid.crid) THEN resolved.bid.crid.v ELSE imp_id,
     w |-> resolved.bid.w, h |-> resolved.bid.h,
     bid |-> Some(resolved.resolved_price)]

\* the OpenRTBBid built for one winner (lines 281-305); id stands for new_id()
OrtbBid(id, imp_id, resolved, host) ==
    LET a == RenderArgs(imp_id, resolved, host)
    IN [id |-> id,
        impid |-> imp_id,
        price |-> resolved.resolved_price,
        adm |-> IF NeedsRender(resolved.bid)
                THEN Some(iframe_html(a.host, a.crid, a.w, a.h, a.bid))
                ELSE Some(resolved.bid.adm.v),
        w |-> Some(resolved.bid.w),
        h |-> Some(resolved.bid.h),
        crid |-> resolved.bid.crid,
        adomain |-> resolved.bid.adomain,
        mtype |-> Some("Banner")]

\* the key of the seats map a winner is pushed under
SeatKey(resolved) == resolved.bidder

\* the seat and the OpenRTBBid of every winner, in the order impOrder in which
\* winning_bids is iterated (lines 280-308)
MadeBids(winning_bids, host, impOrder) ==
    [i \in 1..Len(impOrder) |->
        [seat |-> SeatKey(winning_bids[impOrder[i]]),
         bid |-> OrtbBid(i, impOrder[i], winning_bids[impOrder[i]], host)]]

\* variant: every winner gets a SeatBid of its own
build_openrtb_response_ungrouped(id, winning_bids, host, impOrder, seatOrder) ==
    LET made == MadeBids(winning_bids, host, impOrder)
    IN [id |-> id,
        seatbid |-> [i \in 1..Len(made) |->
                        [seat |-> Some(made[i].seat), bid |-> <<made[i].bid>>]],
        cur |-> Some("USD")]

\* mediation::build_openrtb_response.  impOrder and seatOrder are the orders
\* in which the HashMaps winning_bids and seats happen to be iterated.
build_openrtb_response(id, winning_bids, host, impOrder, seatOrder) ==
    LET made == MadeBids(winning_bids, host, impOrder)
    IN [id |-> id,
        seatbid |-> [s \in 1..Len(seatOrder) |->
                        LET mine == SelectSeq(made, LAMBDA m : m.seat = seatOrder[s])
                        IN [seat |-> Some(seatOrder[s]),
                            bid |-> [j \in 1..Len(mine) |-> mine[j].bid]]],
        cur |-> Some("USD")]

\* the iframe_html calls of build_openrtb_response, in call order
RenderCallsOf(winning_bids, host, impOrder) ==
    LET need == SelectSeq(impOrder, LAMBDA x : NeedsRender(winning_bids[x].bid))
    IN [i \in 1..Len(need) |-> RenderArgs(need[i], winning_bids[need[i]], host)]

\* all orders in which the elements of the finite set S can be iterated
Orders(S) ==
    {f \in [1..Cardinality(S) -> S] : \A i, j \in 1..Cardinality(S) : i # j => f[i] # f[j]}

\* steps 1 and 2 of mediate_auction (lines 156-265): Err, or Ok(winning_bids)
Winners(req) ==
    LET collected == Collect(Flatten(req.ext.bidder_responses, 1), 1, << >>)
    IN IF ~collected.ok THEN collected
       ELSE Ok(WinningBids(BidsByImp(collected.v), PriceFloor(req.ext.config)))

-----------------------------------------------------------------------------
(* Inputs of the mediation model                                           *)

MaxBidderResponses == 2   \* bidder responses per request
MaxBids == 2              \* bids per request, over all bidder responses

Bidders == {"bidder-a", "bidder-b"}
ImpIds == {"imp1", "imp2"}

Price100 == Fin(100, 2)   \* 1.00
Price250 == Fin(250, 2)   \* 2.50
Price300 == Fin(300, 2)   \* 3.00

Enc250 == <<"M", "i", "4", "1", "M", "A", "=", "=">>   \* base64 of "2.50"
EncNaN == <<"T", "m", "F", "O">>                       \* base64 of "NaN"
EncBad == <<"i", "n", "v", "a", "l", "i", "d", "!", "!", "!">>

\* struct MediationBid
MediationBid(imp_id, price, encoded_price, adm, crid) ==
    [imp_id |-> imp_id, price |-> price, encoded_price |-> encoded_price, adm |-> adm,
     w |-> 300, h |-> 250, crid |-> crid, adomain |-> None]

\* markup supplied by a bidder, kept apart from markup made by iframe_html
Markup == Some([html |-> "<div>Ad</div>"])

\* bids with a resolvable price, told apart by their creative id
PricingBids ==
    UNION {{MediationBid(i, Some(Price100), None, Markup, Some("creative-100")),
            MediationBid(i, Some(Price250), None, Markup, Some("creative-250")),
            MediationBid(i, None, Some(Enc250), Markup, Some("creative-aps"))} :
           i \in ImpIds}

\* bids whose price is encoded or missing, and bids that carry a plain price
\* next to an encoded one
EncodedBids ==
    UNION {{MediationBid(i, None, Some(Enc250), Markup, Some("creative-aps")),
            MediationBid(i, None, Some(EncNaN), Markup, Some("creative-nan")),
            MediationBid(i, None, Some(EncBad), Markup, Some("creative-bad")),
            MediationBid(i, None, None, Markup, Some("creative-none"))} :
           i \in ImpIds}
    \cup {MediationBid("imp1", Some(Price300), Some(Enc250), Markup, Some("creative-both")),
          MediationBid("imp1", Some(Price300), Some(EncBad), Markup, Some("creative-both-bad"))}

\* bids of one price, with and without markup and creative id
CreativeBids ==
    {MediationBid(i, Some(Price250), None, adm, crid) :
        i \in ImpIds, adm \in {None, Markup}, crid \in {None, Some("creative-a")}}

\* struct MediationConfig
MediationConfig(price_floor) == [price_floor |-> price_floor]

\* struct MediationRequest; of an Imp only the id is kept
MediationRequest(id, imp, bidder_responses, config) ==
    [id |-> id, imp |-> imp,
     ext |-> [bidder_responses |-> bidder_responses, config |-> config]]

RECURSIVE CountBids(_, _)
\* number of bids of the bidder responses i, i+1, ...
CountBids(bidder_responses, i) ==
    IF i > Len(bidder_responses) THEN 0
    ELSE Len(bidder_responses[i].bids) + CountBids(bidder_responses, i + 1)

-----------------------------------------------------------------------------
(* Actions of the mediation model                                          *)

\* a request without bidder responses in the hands of the caller
MediateInit(configs) ==
    /\ request \in {MediationRequest("test-auction", <<"imp1">>, << >>, c) : c \in configs}
    /\ base_host = "test.host"
    /\ phase = "build"
    /\ result = None
    /\ renderCalls = << >>

\* the caller appends a BidderResponse without bids
AddBidderResponse ==
    /\ phase = "build"
    /\ Len(request.ext.bidder_responses) < MaxBidderResponses
    /\ \E bidder \in Bidders :
         request' = [request EXCEPT !.ext.bidder_responses =
                        Append(@, [bidder |-> bidder, bids |-> << >>])]
    /\ UNCHANGED <<base_host, phase, result, renderCalls, jvars, avars>>

\* the caller appends a MediationBid to the last BidderResponse
AddBid(bids) ==
    /\ phase = "build"
    /\ Len(request.ext.bidder_responses) > 0
    /\ CountBids(request.ext.bidder_responses, 1) < MaxBids
    /\ \E bid \in bids :
         LET last == Len(request.ext.bidder_responses)
         IN request' = [request EXCEPT !.ext.bidder_responses[last].bids = Append(@, bid)]
    /\ UNCHANGED <<base_host, phase, result, renderCalls, jvars, avars>>

\* mediation::mediate_auction(request, base_host)
mediate_auction ==
    /\ phase = "build"
    /\ phase' = "done"
    /\ \E won \in {Winners(request)} :
         IF ~won.ok
         THEN /\ result' = won
              /\ renderCalls' = << >>
         ELSE LET winning_bids == won.v
                  seats == {SeatKey(winning_bids[x]) : x \in DOMAIN winning_bids}
              IN \E impOrder \in Orders(DOMAIN winning_bids) :
                 \E seatOrder \in Orders(seats) :
                    /\ result' = Ok(build_openrtb_response(
                                       request.id, winning_bids, base_host,
                                       impOrder, seatOrder))
                    /\ renderCalls' = RenderCallsOf(winning_bids, base_host, impOrder)
    /\ UNCHANGED <<request, base_host, jvars, avars>>

-----------------------------------------------------------------------------
(* The key-set cache: verification::get_cached_jwks                        *)

JWKS_CACHE_TTL == 10      \* minutes

MaxNow == 10              \* the clock stops advancing here
MaxFetches == 3           \* calls are no longer started once this many fetches may have been issued

Domains == {"pub-a.test", "pub-b.test"}
Callers == {"t1", "t2"}
TimeSteps == {5}          \* minutes by which the clock advances in one step

\* struct JwksResponse: the key sets a JWKS server may serve
Jwks1 == [keys |-> <<[kid |-> "key-1", x |-> "pk-1"]>>]
Jwks2 == [keys |-> <<[kid |-> "key-1", x |-> "pk-1"], [kid |-> "key-2", x |-> "pk-2"]>>]
ServedSets == {Jwks1, Jwks2}

\* struct JwksCache
JwksCache(jwks, fetched_at) == [jwks |-> jwks, fetched_at |-> fetched_at]

\* cached.fetched_at.elapsed()
Elapsed(fetched_at) == now - fetched_at

\* variant: an entry whose age equals the TTL still counts as fresh
IsFreshAtTtl(cached) == Elapsed(cached.fetched_at) <= JWKS_CACHE_TTL

\* the test of line 115 on the entry found for the key
IsFresh(cached) == Elapsed(cached.fetched_at) < JWKS_CACHE_TTL

\* cache.get(&cache_key) finds an entry that passes the test of line 115
CacheHit(d) == d \in DOMAIN cache /\ IsFresh(cache[d])

\* variant: an existing entry is kept (entry().or_insert) instead of replaced
MapInsertKeepsFirst(map, key, value) ==
    [k \in DOMAIN map \cup {key} |-> IF k \in DOMAIN map THEN map[k] ELSE value]

\* HashMap::insert: the entry of the key is created or replaced
MapInsert(map, key, value) ==
    [k \in DOMAIN map \cup {key} |-> IF k = key THEN value ELSE map[k]]

\* a caller outside get_cached_jwks
IdleCaller == [pc |-> "idle", domain |-> "-", jwks |-> None, ret |-> None, hit |-> FALSE]

RECURSIVE SumOver(_, _)
SumOver(f, S) ==
    IF S = {} THEN 0
    ELSE LET x == CHOOSE y \in S : TRUE IN f[x] + SumOver(f, S \ {x})

TotalFetches == SumOver(fetches, Domains)
InCall == {c \in Callers : callers[c].pc \notin {"idle", "done"}}

\* JWKS_CACHE before the first call (LazyLock::new(|| Mutex::new(HashMap::new())))
JwksInit ==
    /\ cache = << >>
    /\ now = 0
    /\ lock = None
    /\ callers = [c \in Callers |-> IdleCaller]
    /\ fetches = [d \in Domains |-> 0]
    /\ served \in [Domains -> {Jwks1}]

\* a task calls get_cached_jwks(domain)
Call(c, d) ==
    /\ callers[c].pc = "idle"
    /\ TotalFetches + Cardinality(InCall) < MaxFetches
    /\ callers' = [callers EXCEPT ![c] = [IdleCaller EXCEPT !.pc = "lock1", !.domain = d]]
    /\ UNCHANGED <<cache, now, lock, fetches, served, mvars, avars>>

\* JWKS_CACHE.lock() of line 110
LockForLookup(c) ==
    /\ callers[c].pc = "lock1"
    /\ lock = None
    /\ lock' = Some(c)
    /\ callers' = [callers EXCEPT ![c].pc = "lookup"]
    /\ UNCHANGED <<cache, now, fetches, served, mvars, avars>>

\* variant: a miss does not fetch while another call already fetches the
\* same domain; the caller goes back to wait for the lock and looks up again
LookupSingleFlight(c) ==
    LET d == callers[c].domain
        busy == \E o \in Callers \ {c} :
                    callers[o].domain = d /\ callers[o].pc \in {"fetch", "lock2", "insert"}
    IN /\ callers[c].pc = "lookup"
       /\ lock = Some(c)
       /\ lock' = None
       /\ IF CacheHit(d)
          THEN /\ callers' = [callers EXCEPT ![c].pc = "done",
                                             ![c].hit = TRUE,
                                             ![c].ret = Ok(cache[d].jwks)]
               /\ fetches' = fetches
          ELSE IF busy
          THEN /\ callers' = [callers EXCEPT ![c].pc = "lock1"]
               /\ fetches' = fetches
          ELSE /\ callers' = [callers EXCEPT ![c].pc = "fetch"]
               /\ fetches' = [fetches EXCEPT ![d] = @ + 1]
       /\ UNCHANGED <<cache, now, served, mvars, avars>>

\* variant: on a miss the guard taken for the lookup lives on across the fetch
LookupKeepsLock(c) ==
    LET d == callers[c].domain
    IN /\ callers[c].pc = "lookup"
       /\ lock = Some(c)
       /\ IF CacheHit(d)
          THEN /\ callers' = [callers EXCEPT ![c].pc = "done",
                                             ![c].hit = TRUE,
                                             ![c].ret = Ok(cache[d].jwks)]
               /\ fetches' = fetches
               /\ lock' = None
          ELSE /\ callers' = [callers EXCEPT ![c].pc = "fetch"]
               /\ fetches' = [fetches EXCEPT ![d] = @ + 1]
               /\ lock' = lock
       /\ UNCHANGED <<cache, now, served, mvars, avars>>

\* lines 114-132: a fresh entry is returned; otherwise the guard is dropped
\* at the end of the block and fetch_jwks(domain) is called
Lookup(c) ==
    LET d == callers[c].domain
    IN /\ callers[c].pc = "lookup"
       /\ lock = Some(c)
       /\ lock' = None
       /\ IF CacheHit(d)
          THEN /\ callers' = [callers EXCEPT ![c].pc = "done",
                                             ![c].hit = TRUE,
                                             ![c].ret = Ok(cache[d].jwks)]
               /\ fetches' = fetches
          ELSE /\ callers' = [callers EXCEPT ![c].pc = "fetch"]
               /\ fetches' = [fetches EXCEPT ![d] = @ + 1]
       /\ UNCHANGED <<cache, now, served, mvars, avars>>

\* enum VerificationError: a kind and its detail
VerificationError(kind, msg) == [kind |-> kind, msg |-> msg]

\* what the proxy hands back for the GET of the domain's JWKS document:
\* transport "ok" or "error"; body Some(key set) when the bytes parse as a
\* JwksResponse, None when they do not
HttpResponse(transport, status, body) ==
    [transport |-> transport, status |-> status, body |-> body]

\* the responses a caller of fetch_jwks(d) may meet
Responses(d) ==
    { HttpResponse("ok", 200, Some(served[d])),
      HttpResponse("error", 0, None),
      HttpResponse("ok", 404, Some(served[d])),
      HttpResponse("ok", 200, None) }

\* variant: a failed fetch is turned into an empty key set
fetch_jwks_or_empty(resp) ==
    IF resp.transport = "ok" /\ resp.status = 200 /\ IsSome(resp.body)
    THEN Ok(resp.body.v)
    ELSE Ok([keys |-> << >>])

\* fetch_jwks on the response it receives (lines 74-103)
fetch_jwks(resp) ==
    IF resp.transport # "ok"
    THEN Err(VerificationError("HttpError", "JWKS fetch failed"))
    ELSE IF resp.status # 200
    THEN Err(VerificationError("HttpError", "JWKS server returned status"))
    ELSE IF ~IsSome(resp.body)
    THEN Err(VerificationError("HttpError", "JWKS parse failed"))
    ELSE Ok(resp.body.v)

\* fetch_jwks(domain).await returns Ok(jwks)
FetchOk(c) ==
    /\ callers[c].pc = "fetch"
    /\ \E resp \in Responses(callers[c].domain) :
         \E fetched \in {fetch_jwks(resp)} :
            /\ fetched.ok
            /\ callers' = [callers EXCEPT ![c].pc = "lock2",
                                          ![c].jwks = Some(fetched.v)]
    /\ UNCHANGED <<cache, now, lock, fetches, served, mvars, avars>>

\* variant: a failed fetch evicts the entry of its domain
FetchErrEvicts(c) ==
    /\ callers[c].pc = "fetch"
    /\ \E resp \in Responses(callers[c].domain) :
         \E fetched \in {fetch_jwks(resp)} :
            /\ ~fetched.ok
            /\ callers' = [callers EXCEPT ![c].pc = "done", ![c].ret = fetched]
    /\ cache' = [d \in DOMAIN cache \ {callers[c].domain} |-> cache[d]]
    /\ UNCHANGED <<now, lock, fetches, served, mvars, avars>>

\* fetch_jwks(domain).await returns Err(..) and ? returns it (line 135)
FetchErr(c) ==
    /\ callers[c].pc = "fetch"
    /\ \E resp \in Responses(callers[c].domain) :
         \E fetched \in {fetch_jwks(resp)} :
            /\ ~fetched.ok
            /\ callers' = [callers EXCEPT ![c].pc = "done", ![c].ret = fetched]
    /\ UNCHANGED <<cache, now, lock, fetches, served, mvars, avars>>

\* JWKS_CACHE.lock() of line 137
LockForInsert(c) ==
    /\ callers[c].pc = "lock2"
    /\ lock = None
    /\ lock' = Some(c)
    /\ callers' = [callers EXCEPT ![c].pc = "insert"]
    /\ UNCHANGED <<cache, now, fetches, served, mvars, avars>>

\* variant: the guard taken for the insert is never dropped
InsertKeepsLock(c) ==
    LET d == callers[c].domain
    IN /\ callers[c].pc = "insert"
       /\ lock = Some(c)
       /\ cache' = MapInsert(cache, d, JwksCache(callers[c].jwks.v, now))
       /\ lock' = lock
       /\ callers' = [callers EXCEPT ![c].pc = "done", ![c].ret = Ok(callers[c].jwks.v)]
       /\ UNCHANGED <<now, fetches, served, mvars, avars>>

\* lines 141-149: the entry is inserted, the guard dropped, Ok(jwks) returned
Insert(c) ==
    LET d == callers[c].domain
    IN /\ callers[c].pc = "insert"
       /\ lock = Some(c)
       /\ cache' = MapInsert(cache, d, JwksCache(callers[c].jwks.v, now))
       /\ lock' = None
       /\ callers' = [callers EXCEPT ![c].pc = "done", ![c].ret = Ok(callers[c].jwks.v)]
       /\ UNCHANGED <<now, fetches, served, mvars, avars>>

\* the caller takes the result of get_cached_jwks
Return(c) ==
    /\ callers[c].pc = "done"
    /\ callers' = [callers EXCEPT ![c] = IdleCaller]
    /\ UNCHANGED <<cache, now, lock, fetches, served, mvars, avars>>

\* time passes
Advance ==
    /\ \E dt \in TimeSteps : now + dt <= MaxNow /\ now' = now + dt
    /\ UNCHANGED <<cache, lock, callers, fetches, served, mvars, avars>>

\* the JWKS server of a domain starts to serve another key set
Rotate(d) ==
    /\ served' \in {[served EXCEPT ![d] = k] : k \in ServedSets \ {served[d]}}
    /\ UNCHANGED <<cache, now, lock, callers, fetches, mvars, avars>>

-----------------------------------------------------------------------------
(* The bid synthesizer: auction.rs                                         *)

DEFAULT_CPM == 150      \* 1.50, in cents
MAX_AREA_BONUS == 300   \* 3.00, in cents

\* SIZE_MAP: "WxH" -> cpm
SIZE_MAP ==
    (<<"3","0","0","x","2","5","0">> :> Fin(250, 2)) @@
    (<<"3","3","6","x","2","8","0">> :> Fin(260, 2)) @@
    (<<"7","2","8","x","9","0">> :> Fin(300, 2)) @@
    (<<"9","7","0","x","9","0">> :> Fin(380, 2)) @@
    (<<"1","6","0","x","6","0","0">> :> Fin(320, 2)) @@
    (<<"3","0","0","x","6","0","0">> :> Fin(350, 2)) @@
    (<<"9","7","0","x","2","5","0">> :> Fin(420, 2)) @@
    (<<"4","6","8","x","6","0">> :> Fin(200, 2)) @@
    (<<"3","2","0","x","5","0">> :> Fin(180, 2)) @@
    (<<"3","0","0","x","5","0">> :> Fin(170, 2)) @@
    (<<"3","2","0","x","1","0","0">> :> Fin(220, 2)) @@
    (<<"3","2","0","x","4","8","0">> :> Fin(280, 2)) @@
    (<<"4","8","0","x","3","2","0">> :> Fin(280, 2))

RECURSIVE Digits(_, _)
\* the decimal digits of n >= 0, padded with leading zeros to width
Digits(n, width) ==
    IF n < 10 /\ width <= 1 THEN <<n>>
    ELSE Digits(n \div 10, width - 1) \o <<n % 10>>

\* size_key: format!("{}x{}", w, h)
size_key(w, h) ==
    LET str(n) ==
            LET d == Digits(IF n < 0 THEN 0 - n ELSE n, 1)
            IN (IF n < 0 THEN <<"-">> ELSE << >>)
               \o [i \in 1..Len(d) |-> B64Alphabet[53 + d[i]]]
    IN str(w) \o <<"x">> \o str(h)

is_standard_size(w, h) == size_key(w, h) \in DOMAIN SIZE_MAP

\* variant: every size is priced by its area
get_cpm_by_area(w, h) ==
    LET area == w * h
        bonus == IF area < MAX_AREA_BONUS * 1000 THEN area ELSE MAX_AREA_BONUS * 1000
        scaled == DEFAULT_CPM * 1000 + bonus
        round == IF scaled >= 0 THEN (2 * scaled + 1000) \div 2000
                 ELSE 0 - ((1000 - 2 * scaled) \div 2000)
    IN Fin(round, 2)

\* get_cpm.  The fallback is computed on exact decimals: area / 100000.0 is
\* area thousandths of a cent, f64::round rounds half away from zero.
get_cpm(w, h) ==
    IF size_key(w, h) \in DOMAIN SIZE_MAP THEN SIZE_MAP[size_key(w, h)]
    ELSE LET area == w * h
             bonus == IF area < MAX_AREA_BONUS * 1000 THEN area ELSE MAX_AREA_BONUS * 1000
             scaled == DEFAULT_CPM * 1000 + bonus
             round == IF scaled >= 0 THEN (2 * scaled + 1000) \div 2000
                      ELSE 0 - ((1000 - 2 * scaled) \div 2000)
         IN Fin(round, 2)

\* size_from_imp: banner.w/h, else banner.format[0], else 300x250
size_from_imp(imp) ==
    IF IsSome(imp.banner) /\ IsSome(imp.banner.v.w) /\ IsSome(imp.banner.v.h)
    THEN <<imp.banner.v.w.v, imp.banner.v.h.v>>
    ELSE IF IsSome(imp.banner) /\ IsSome(imp.banner.v.format)
            /\ Len(imp.banner.v.format.v) > 0
    THEN <<imp.banner.v.format.v[1].w, imp.banner.v.format.v[1].h>>
    ELSE <<300, 250>>

\* variant: a non-standard size is left as it is
standard_or_unsnapped(size) == size

standard_or_default(size) ==
    IF is_standard_size(size[1], size[2]) THEN size ELSE <<300, 250>>

\* variant: the markup is rendered with the bid's price, overridden or not
OpenrtbBidPriced(bid_id, imp, host) ==
    LET impid == IF imp.id = "" THEN "1" ELSE imp.id
        size == standard_or_default(size_from_imp(imp))
        crid == "mocktioneer-" \o impid
        custom == IF IsSome(imp.ext) /\ IsSome(imp.ext.v.mocktioneer)
                  THEN imp.ext.v.mocktioneer.v.bid ELSE None
        price == IF IsSome(custom) THEN custom.v ELSE get_cpm(size[1], size[2])
    IN [id |-> bid_id,
        impid |-> impid,
        price |-> price,
        adm |-> Some(iframe_html(host, crid, size[1], size[2], Some(price))),
        crid |-> Some(crid),
        w |-> Some(size[1]),
        h |-> Some(size[2]),
        mtype |-> Some("Banner"),
        adomain |-> Some(<<"example.com">>),
        ext |-> IF IsSome(custom) THEN Some([mocktioneer |-> [bid |-> custom.v]]) ELSE None]

\* the OpenrtbBid pushed for one impression (lines 120-149); bid_id stands
\* for new_id()
OpenrtbBid(bid_id, imp, host) ==
    LET impid == IF imp.id = "" THEN "1" ELSE imp.id
        size == standard_or_default(size_from_imp(imp))
        crid == "mocktioneer-" \o impid
        custom == IF IsSome(imp.ext) /\ IsSome(imp.ext.v.mocktioneer)
                  THEN imp.ext.v.mocktioneer.v.bid ELSE None   \* custom_bid
    IN [id |-> bid_id,
        impid |-> impid,
        price |-> IF IsSome(custom) THEN custom.v ELSE get_cpm(size[1], size[2]),
        adm |-> Some(iframe_html(host, crid, size[1], size[2], custom)),
        crid |-> Some(crid),
        w |-> Some(size[1]),
        h |-> Some(size[2]),
        mtype |-> Some("Banner"),
        adomain |-> Some(<<"example.com">>),
        ext |-> IF IsSome(custom) THEN Some([mocktioneer |-> [bid |-> custom.v]]) ELSE None]

\* variant: impressions without a banner get no bid
build_openrtb_response_banner_only(req, host) ==
    LET with == SelectSeq(req.imp, LAMBDA imp : IsSome(imp.banner))
    IN [id |-> IF req.id = "" THEN "req" ELSE req.id,
        cur |-> Some("USD"),
        seatbid |-> << [seat |-> Some("mocktioneer"),
                        bid |-> [i \in 1..Len(with) |-> OpenrtbBid(i, with[i], host)]] >>]

\* auction::build_openrtb_response(req, base_host)
auction_build_openrtb_response(req, host) ==
    [id |-> IF req.id = "" THEN "req" ELSE req.id,
     cur |-> Some("USD"),
     seatbid |-> << [seat |-> Some("mocktioneer"),
                     bid |-> [i \in 1..Len(req.imp) |-> OpenrtbBid(i, req.imp[i], host)]] >>]

\* f64's Display (price.to_string()), as bytes: the shortest decimal that
\* reads back as the same f64, without exponent
F64ToString(a) ==
    IF a.k = "nan" THEN <<78, 97, 78>>
    ELSE IF a.k = "inf" THEN <<105, 110, 102>>
    ELSE IF a.k = "ninf" THEN <<45, 105, 110, 102>>
    ELSE LET m == IF a.n < 0 THEN 0 - a.n ELSE a.n
             int == Digits(m \div Pow10(a.e), 1)
             frac == IF a.e = 0 THEN << >> ELSE Digits(m % Pow10(a.e), a.e)
         IN (IF a.n < 0 THEN <<45>> ELSE << >>)
            \o [i \in 1..Len(int) |-> 48 + int[i]]
            \o (IF a.e = 0 THEN << >> ELSE <<46>>)
            \o [i \in 1..Len(frac) |-> 48 + frac[i]]

RECURSIVE B64Encode(_)
\* STANDARD.encode: three bytes to four symbols, "=" padding
B64Encode(bytes) ==
    LET n == Len(bytes)
        sym(v) == B64Alphabet[v + 1]
    IN IF n = 0 THEN << >>
       ELSE IF n = 1 THEN
            << sym(bytes[1] \div 4), sym((bytes[1] % 4) * 16), "=", "=" >>
       ELSE IF n = 2 THEN
            << sym(bytes[1] \div 4), sym((bytes[1] % 4) * 16 + (bytes[2] \div 16)),
               sym((bytes[2] % 16) * 4), "=" >>
       ELSE << sym(bytes[1] \div 4), sym((bytes[1] % 4) * 16 + (bytes[2] \div 16)),
               sym((bytes[2] % 16) * 4 + (bytes[3] \div 64)), sym(bytes[3] % 64) >>
            \o B64Encode(SubSeq(bytes, 4, n))

\* variant: the encoding carries no "=" padding
encode_aps_price_unpadded(price) ==
    SelectSeq(B64Encode(F64ToString(price)), LAMBDA c : c # "=")

encode_aps_price(price) == B64Encode(F64ToString(price))

\* auction::decode_aps_price: Option<f64>
auction_decode_aps_price(encoded) ==
    LET decoded == B64Decode(encoded)
    IN IF ~IsSome(decoded) THEN None                 \* STANDARD.decode(..).ok()?
       ELSE IF ~IsUtf8(decoded.v, 1) THEN None       \* String::from_utf8(..).ok()?
       ELSE ParseF64(decoded.v)                      \* price_str.parse().ok()

RECURSIVE first_standard_size(_, _, _)
\* variant: the first standard size of the slot is taken
first_standard_size(sizes, i, acc) ==
    IF i > Len(sizes) \/ IsSome(acc) THEN acc
    ELSE LET w == sizes[i][1]
             h == sizes[i][2]
         IN IF ~is_standard_size(w, h) THEN first_standard_size(sizes, i + 1, acc)
            ELSE Some([w |-> w, h |-> h, price |-> get_cpm(w, h)])

RECURSIVE best_size(_, _, _)
\* filter_map(..).max_by(..) over sizes[i..]: acc is the best (w, h, price)
\* so far; max_by keeps the later of two elements that do not compare Greater
best_size(sizes, i, acc) ==
    IF i > Len(sizes) THEN acc
    ELSE LET w == sizes[i][1]
             h == sizes[i][2]
         IN IF ~is_standard_size(w, h) THEN best_size(sizes, i + 1, acc)
            ELSE LET cur == [w |-> w, h |-> h, price |-> get_cpm(w, h)]
                 IN IF IsSome(acc) /\ partial_cmp(acc.v.price, cur.price) = "greater"
                    THEN best_size(sizes, i + 1, acc)
                    ELSE best_size(sizes, i + 1, Some(cur))

\* build_aps_response(req, base_host); the ids stand for new_id()
build_aps_response(req, host) ==
    LET best == [i \in 1..Len(req.slots) |-> best_size(req.slots[i].sizes, 1, None)]
        kept == SelectSeq([i \in 1..Len(req.slots) |-> i], LAMBDA i : IsSome(best[i]))
        slot(j) ==
            LET b == best[kept[j]].v
                size_str == size_key(b.w, b.h)
                encoded_price == encode_aps_price(b.price)
            IN [slot_id |-> req.slots[kept[j]].slot_id,
                size |-> size_str,
                crid |-> Some([id |-> 2 * j, suffix |-> "-mocktioneer"]),
                media_type |-> Some("d"),
                fif |-> Some("1"),
                amzniid |-> Some([id |-> 2 * j - 1]),
                amznbid |-> Some(encoded_price),
                amznp |-> Some(encoded_price),
                amznsz |-> Some(size_str),
                amznactt |-> Some("OPEN")]
    IN [contextual |->
           [slots |-> [j \in 1..Len(kept) |-> slot(j)],
            host |-> Some("https://" \o host),
            status |-> Some("ok")]]

-----------------------------------------------------------------------------
(* Inputs and calls of the bid synthesizer                                 *)

MaxImps == 2    \* impressions per auction request
MaxSizes == 2   \* sizes per APS slot

\* auction requests of n impressions: with and without banner, explicit
\* size, declared formats and price override
SynthRequests(n) ==
    LET fmt(w, h) == [w |-> w, h |-> h]
        Banner(w, h, format) == Some([w |-> w, h |-> h, format |-> format])
        banners ==
            {None,
             Banner(None, None, None),
             Banner(Some(728), Some(90), None),
             Banner(Some(333), Some(222), Some(<<fmt(320, 50)>>)),
             Banner(Some(728), None, Some(<<fmt(320, 50), fmt(300, 600)>>)),
             Banner(None, None, Some(<< >>)),
             Banner(None, None, Some(<<fmt(333, 222), fmt(300, 250)>>))}
        exts ==
            {Some([mocktioneer |-> None]),
             Some([mocktioneer |-> Some([bid |-> None])]),
             Some([mocktioneer |-> Some([bid |-> Some(Fin(25, 1))])]),
             Some([mocktioneer |-> Some([bid |-> Some(Fin(1005, 3))])])}
        imps ==
            {[id |-> i, banner |-> b, ext |-> None] : i \in {"", "1", "imp-b"}, b \in banners}
            \cup
            {[id |-> "1", banner |-> b, ext |-> e] :
                b \in {Banner(Some(728), Some(90), None),
                       Banner(Some(333), Some(222), Some(<<fmt(320, 50)>>))},
                e \in exts}
    IN {[id |-> i, imp |-> l] : i \in (IF n <= 1 THEN {"", "r1"} ELSE {"r1"}),
                                l \in [1..n -> imps]}

\* APS requests of one or two slots, each with up to MaxSizes different sizes
ApsRequests ==
    LET sizes == {<<320, 50>>, <<333, 222>>, <<320, 480>>, <<480, 320>>}
        lists == {l \in UNION {[1..n -> sizes] : n \in 0..MaxSizes} :
                     \A i, j \in 1..Len(l) : i # j => l[i] # l[j]}
        slot(name, l) == [slot_id |-> name, sizes |-> l]
    IN {[pub_id |-> "5555", slots |-> <<slot("slot1", a)>>] : a \in lists}
       \cup
       {[pub_id |-> "5555", slots |-> <<slot("slot1", a), slot("slot2", b)>>] :
           a \in lists, b \in lists}

\* prices handed to encode_aps_price
Prices ==
    {Fin(0, 0), Fin(1, 2), Fin(25, 1), Fin(3, 0), Fin(42, 1), Fin(28, 1), Fin(12345, 3),
     Fin(100, 0), Inf, Fin(0 - 15, 1), NaN}

\* strings handed to decode_aps_price: encoded prices, "", text outside the
\* base64 alphabet, and the base64 of non-numeric text and of non-UTF-8 bytes
PriceTokens ==
    {encode_aps_price(p) : p \in Prices}
    \cup
    {<< >>, EncBad, Enc250,
     <<"n","o","t","-","b","a","s","e","6","4","!","!","!">>,
     <<"Y","W","J","j">>,            \* "abc"
     <<"/","w","=","=">>,            \* the byte 0xFF
     <<"M","i","4","1">>,            \* "2.5"
     <<"M","i","4","1","M","A","=">>,     \* wrong padding
     <<"M","i","4","1","M","B","=","=">>, \* non-zero trailing bits
     <<"M","i","4","=">>,            \* "2." 
     <<"L","j","U","=">>,            \* ".5"
     <<"M","i","4","1","I","A","=","=">>, \* "2.5 "
     <<"M","W","U","y">>,            \* "1e2"
     <<"L","g","=","=">>}            \* "."

\* widths and heights handed to is_standard_size and get_cpm
CpmSides ==
    {0 - 1, 0, 1, 50, 60, 90, 100, 160, 222, 250, 251, 280, 300, 320, 333, 336, 468, 480,
     600, 728, 970, 1000}

\* one call of build_openrtb_response
Synthesize ==
    /\ synth = None
    /\ \E n \in 0..MaxImps : \E req \in SynthRequests(n) : \E host \in {"host.test"} :
          synth' = Some([op |-> "build_openrtb_response", req |-> req, host |-> host,
                         ret |-> auction_build_openrtb_response(req, host)])
    /\ UNCHANGED <<mvars, jvars, auction>>

\* one call of build_aps_response
BuildAps ==
    /\ synth = None
    /\ \E req \in ApsRequests : \E host \in {"mocktioneer.test"} :
          synth' = Some([op |-> "build_aps_response", req |-> req, host |-> host,
                         ret |-> build_aps_response(req, host)])
    /\ UNCHANGED <<mvars, jvars, auction>>

\* one call of each decode_aps_price on the same string
DecodePrice ==
    /\ synth = None
    /\ \E encoded \in PriceTokens :
          synth' = Some([op |-> "decode_aps_price", encoded |-> encoded,
                         ret |-> auction_decode_aps_price(encoded),
                         mediation |-> decode_aps_price(encoded)])
    /\ UNCHANGED <<mvars, jvars, auction>>

\* one call of is_standard_size and of get_cpm on the same size
Cpm ==
    /\ synth = None
    /\ \E w \in CpmSides, h \in CpmSides :
          synth' = Some([op |-> "get_cpm", w |-> w, h |-> h,
                         standard |-> is_standard_size(w, h), ret |-> get_cpm(w, h)])
    /\ UNCHANGED <<mvars, jvars, auction>>

-----------------------------------------------------------------------------
(* Signature verification: verification::verify_request_id_signature       *)

B64UrlAlphabet ==
    << "A","B","C","D","E","F","G","H","I","J","K","L","M","N","O","P",
       "Q","R","S","T","U","V","W","X","Y","Z","a","b","c","d","e","f",
       "g","h","i","j","k","l","m","n","o","p","q","r","s","t","u","v",
       "w","x","y","z","0","1","2","3","4","5","6","7","8","9","-","_" >>

\* symbol -> its 6-bit value
B64UrlTable ==
    [c \in {B64UrlAlphabet[i] : i \in 1..64} |->
        (CHOOSE i \in 1..64 : B64UrlAlphabet[i] = c) - 1]

RECURSIVE B64UrlQuads(_, _)
\* the bytes of the complete quantums s[i..i+3], s[i+4..i+7], ...
B64UrlQuads(s, i) ==
    IF i + 3 > Len(s) THEN << >>
    ELSE LET a == B64UrlTable[s[i]]
             b == B64UrlTable[s[i + 1]]
             c == B64UrlTable[s[i + 2]]
             d == B64UrlTable[s[i + 3]]
         IN << a * 4 + (b \div 16), (b % 16) * 16 + (c \div 4), (c % 4) * 64 + d >>
            \o B64UrlQuads(s, i + 4)

\* URL_SAFE_NO_PAD.decode: no padding, no symbol outside the alphabet, no
\* single trailing symbol, no non-zero trailing bits. Some(bytes) or None.
B64UrlDecode(s) ==
    LET n == Len(s)
        full == (n \div 4) * 4
        tail == SubSeq(s, full + 1, n)
    IN IF \E i \in 1..n : s[i] \notin DOMAIN B64UrlTable THEN None
       ELSE IF n % 4 = 1 THEN None
       ELSE IF n % 4 = 0 THEN Some(B64UrlQuads(s, 1))
       ELSE IF n % 4 = 3 THEN
            LET a == B64UrlTable[tail[1]]
                b == B64UrlTable[tail[2]]
                c == B64UrlTable[tail[3]]
            IN IF c % 4 # 0 THEN None
               ELSE Some(B64UrlQuads(SubSeq(s, 1, full), 1)
                         \o << a * 4 + (b \div 16), (b % 16) * 16 + (c \div 4) >>)
       ELSE LET a == B64UrlTable[tail[1]]
                b == B64UrlTable[tail[2]]
            IN IF b % 16 # 0 THEN None
               ELSE Some(B64UrlQuads(SubSeq(s, 1, full), 1) \o << a * 4 + (b \div 16) >>)

\* serde_json::Value: an object, a string or a number
JsonObj(fields) == [t |-> "obj", f |-> fields]
JsonStr(str) == [t |-> "str", s |-> str]
JsonNum(n) == [t |-> "num", n |-> n]

\* Value::get(key): the member of an object, None for anything else
JsonGet(v, key) ==
    IF v.t = "obj" /\ key \in DOMAIN v.f THEN Some(v.f[key]) ELSE None

\* Value::as_str
as_str(v) == IF v.t = "str" THEN Some(v.s) ELSE None

\* Option::and_then(|e| e.get(key))
and_then_get(o, key) == IF IsSome(o) THEN JsonGet(o.v, key) ELSE None

\* Option::and_then(|v| v.as_str())
and_then_as_str(o) == IF IsSome(o) THEN as_str(o.v) ELSE None

\* n copies of x
Rep(x, n) == [i \in 1..n |-> x]

\* message.as_bytes(): the UTF-8 bytes of the request ids of the model
as_bytes ==
    [m \in {"req-4", "req-1"} |->
        IF m = "req-4" THEN <<114, 101, 113, 45, 52>> ELSE <<114, 101, 113, 45, 49>>]

\* VerifyingKey::from_bytes on the 32-byte strings of the model: the encoding
\* of y = 0 decompresses to a curve point, that of y = 2 does not
VerifyingKey_from_bytes(key_array) ==
    IF key_array = Rep(0, 32) THEN Some(key_array) ELSE None

\* verifying_key.verify(message, signature) for the key with y = 0: with
\* R the neutral element and s = 0 the check holds for the message "req-4"
\* (SHA-512(R, A, message) is 0 mod 4) and fails for "req-1"; every other
\* signature of the model fails
Ed25519Verifies(verifying_key, message_bytes, sig_array) ==
    /\ verifying_key = Rep(0, 32)
    /\ message_bytes = as_bytes["req-4"]
    /\ sig_array = <<1>> \o Rep(0, 63)

\* find_public_key: the x of the first key with the kid
find_public_key(jwks, kid) ==
    IF \E i \in 1..Len(jwks.keys) : jwks.keys[i].kid = kid
    THEN Ok(jwks.keys[CHOOSE i \in 1..Len(jwks.keys) :
                        /\ jwks.keys[i].kid = kid
                        /\ \A j \in 1..(i - 1) : jwks.keys[j].kid # kid].x)
    ELSE Err(VerificationError("KeyNotFound", "Key not found in JWKS"))

\* variant: a signature that does not verify is reported like a malformed one
verify_ed25519_signature_one_kind(public_key_b64, signature_b64, message) ==
    LET public_key_bytes == B64UrlDecode(public_key_b64)
        signature_bytes == B64UrlDecode(signature_b64)
    IN IF /\ IsSome(public_key_bytes)
          /\ Len(public_key_bytes.v) = 32
          /\ IsSome(VerifyingKey_from_bytes(public_key_bytes.v))
          /\ IsSome(signature_bytes)
          /\ Len(signature_bytes.v) = 64
          /\ Ed25519Verifies(public_key_bytes.v, as_bytes[message], signature_bytes.v)
       THEN Ok("unit")
       ELSE Err(VerificationError("InvalidSignature", "Invalid signature"))

\* verify_ed25519_signature
verify_ed25519_signature(public_key_b64, signature_b64, message) ==
    LET public_key_bytes == B64UrlDecode(public_key_b64)
        signature_bytes == B64UrlDecode(signature_b64)
    IN IF ~IsSome(public_key_bytes)
       THEN Err(VerificationError("InvalidSignature", "Invalid public key encoding"))
       ELSE IF Len(public_key_bytes.v) # 32
       THEN Err(VerificationError("InvalidSignature", "Invalid public key length"))
       ELSE IF ~IsSome(VerifyingKey_from_bytes(public_key_bytes.v))
       THEN Err(VerificationError("InvalidSignature", "Invalid public key"))
       ELSE IF ~IsSome(signature_bytes)
       THEN Err(VerificationError("InvalidSignature", "Invalid signature encoding"))
       ELSE IF Len(signature_bytes.v) # 64
       THEN Err(VerificationError("InvalidSignature", "Invalid signature length"))
       ELSE IF ~Ed25519Verifies(public_key_bytes.v, as_bytes[message], signature_bytes.v)
       THEN Err(VerificationError("SignatureVerificationFailed", "-"))
       ELSE Ok("unit")

\* variant: the two missing fields are reported with one error
SignatureFieldsOneError(ext) ==
    LET ext_obj == and_then_get(ext, "trusted_server")
    IN IF ~IsSome(ext_obj)
       THEN Err(VerificationError("InvalidSignature", "Missing ext.trusted_server"))
       ELSE LET signature == and_then_as_str(JsonGet(ext_obj.v, "signature"))
                key_id == and_then_as_str(JsonGet(ext_obj.v, "kid"))
            IN IF ~IsSome(signature) \/ ~IsSome(key_id)
               THEN Err(VerificationError("InvalidSignature",
                                          "Missing ext.trusted_server.signature"))
               ELSE Ok([signature |-> signature.v, key_id |-> key_id.v])

\* lines 210-223: the signature and the kid of ext.trusted_server
SignatureFields(ext) ==
    LET ext_obj == and_then_get(ext, "trusted_server")
    IN IF ~IsSome(ext_obj)
       THEN Err(VerificationError("InvalidSignature", "Missing ext.trusted_server"))
       ELSE LET signature == and_then_as_str(JsonGet(ext_obj.v, "signature"))
                key_id == and_then_as_str(JsonGet(ext_obj.v, "kid"))
            IN IF ~IsSome(signature)
               THEN Err(VerificationError("InvalidSignature",
                                          "Missing ext.trusted_server.signature"))
               ELSE IF ~IsSome(key_id)
               THEN Err(VerificationError("KeyNotFound", "Missing ext.trusted_server.kid"))
               ELSE Ok([signature |-> signature.v, key_id |-> key_id.v])

\* variant: the result of verify_ed25519_signature is dropped
verify_request_id_signature_unchecked(request_id, ext, jwks_result) ==
    LET fields == SignatureFields(ext)
    IN IF ~fields.ok THEN fields
       ELSE IF ~jwks_result.ok THEN jwks_result
       ELSE LET public_key == find_public_key(jwks_result.v, fields.v.key_id)
            IN IF ~public_key.ok THEN public_key
               ELSE Ok(fields.v.key_id)

\* variant: the signature text is decoded before the key is looked up
verify_request_id_signature_decode_first(request_id, ext, jwks_result) ==
    LET fields == SignatureFields(ext)
    IN IF ~fields.ok THEN fields
       ELSE IF ~jwks_result.ok THEN jwks_result
       ELSE IF ~IsSome(B64UrlDecode(fields.v.signature))
       THEN Err(VerificationError("InvalidSignature", "Invalid signature encoding"))
       ELSE IF Len(B64UrlDecode(fields.v.signature).v) # 64
       THEN Err(VerificationError("InvalidSignature", "Invalid signature length"))
       ELSE LET public_key == find_public_key(jwks_result.v, fields.v.key_id)
            IN IF ~public_key.ok THEN public_key
               ELSE LET verified == verify_ed25519_signature(
                                        public_key.v, fields.v.signature, request_id)
                    IN IF ~verified.ok THEN verified
                       ELSE Ok(fields.v.key_id)

\* verify_request_id_signature, given what get_cached_jwks(domain).await
\* returned (consulted only when both fields are present)
verify_request_id_signature(request_id, ext, jwks_result) ==
    LET fields == SignatureFields(ext)
    IN IF ~fields.ok THEN fields
       ELSE IF ~jwks_result.ok THEN jwks_result
       ELSE LET public_key == find_public_key(jwks_result.v, fields.v.key_id)
            IN IF ~public_key.ok THEN public_key
               ELSE LET verified == verify_ed25519_signature(
                                        public_key.v, fields.v.signature, request_id)
                    IN IF ~verified.ok THEN verified
                       ELSE Ok(fields.v.key_id)

\* Display of VerificationError (thiserror): the prefix of the kind, then the detail
to_string(e) ==
    CASE e.kind = "KeyNotFound" -> <<"Key not found: ", e.msg>>
      [] e.kind = "InvalidSignature" -> <<"Invalid signature: ", e.msg>>
      [] e.kind = "SignatureVerificationFailed" -> <<"Signature verification failed">>
      [] e.kind = "HttpError" -> <<"HTTP error: ", e.msg>>
      [] OTHER -> <<"No domain for JWKS verification">>

\* enum SignatureStatus
Verified(kid) == [status |-> "Verified", kid |-> kid]
StatusFailed(reason) == [status |-> "Failed", reason |-> reason]
NotPresent(reason) == [status |-> "NotPresent", reason |-> reason]

\* the key texts a JWKS document of the model holds: 32 zero bytes (the
\* encoding of y = 0), the same with a padding sign, the 4 bytes of "test",
\* and the 32 bytes of y = 2
PkGood == Rep("A", 43)
PkPadded == Rep("A", 43) \o <<"=">>
PkShort == <<"d", "G", "V", "z", "d", "A">>
PkOffCurve == <<"A", "g">> \o Rep("A", 41)

\* the signature texts of the requests: R neutral and s = 0; 64 zero bytes;
\* 86 symbols with non-zero trailing bits; the 4 bytes of "test"
SigGood == <<"A", "Q">> \o Rep("A", 84)
SigZero == Rep("A", 86)
SigTrailingBits == Rep("_", 86)
SigShort == <<"d", "G", "V", "z", "d", "A">>

\* the key set served to the verifier; the kid "key-1" occurs twice
JwksSigned ==
    [keys |-> << [kid |-> "key-1", x |-> PkGood],
                 [kid |-> "key-2", x |-> PkPadded],
                 [kid |-> "key-3", x |-> PkShort],
                 [kid |-> "key-4", x |-> PkOffCurve],
                 [kid |-> "key-1", x |-> PkShort] >>]

VerifyDomain == "pub-a.test"

\* ext.trusted_server with the given members
TrustedServer(fields) == Some(JsonObj([trusted_server |-> JsonObj(fields)]))

\* request extensions without a usable signature block
IncompleteExts ==
    { None,
      Some(JsonObj([some_other_field |-> JsonStr("value")])),
      Some(JsonObj([trusted_server |-> JsonStr("value")])),
      TrustedServer([kid |-> JsonStr("key-1")]),
      TrustedServer([signature |-> JsonNum(42), kid |-> JsonStr("key-1")]),
      TrustedServer([signature |-> JsonStr(SigGood)]),
      TrustedServer([signature |-> JsonStr(SigGood), kid |-> JsonNum(1)]) }

\* request extensions with a signature string and a kid string
SignedExts ==
    { TrustedServer([signature |-> JsonStr(sg), kid |-> JsonStr("key-1")]) :
          sg \in {SigGood, SigZero, SigTrailingBits, SigShort} }
    \cup
    { TrustedServer([signature |-> JsonStr(SigGood), kid |-> JsonStr(k)]) :
          k \in {"key-2", "key-3", "key-4", "key-9"} }
    \cup
    \* a malformed signature with an unknown kid and with a malformed key
    { TrustedServer([signature |-> JsonStr(SigShort), kid |-> JsonStr(k)]) :
          k \in {"key-3", "key-9"} }

\* OpenRTBRequest: id, site and ext; imp is two banner impressions, the
\* second of a non-standard size
OpenRTBRequest(id, site, ext) ==
    [id |-> id,
     imp |-> << [id |-> "1", ext |-> None,
                 banner |-> Some([w |-> Some(728), h |-> Some(90), format |-> None])],
                [id |-> "2", ext |-> Some([mocktioneer |-> Some([bid |-> Some(Fin(25, 1))])]),
                 banner |-> Some([w |-> Some(333), h |-> Some(222), format |-> None])] >>,
     site |-> site, ext |-> ext]

Sites == {None, Some([domain |-> None]), Some([domain |-> Some(VerifyDomain)])}

AuctionRequests ==
    { OpenRTBRequest("req-4", st, e) : st \in Sites, e \in IncompleteExts \cup SignedExts }
    \cup
    { OpenRTBRequest("req-1", Some([domain |-> Some(VerifyDomain)]),
                     TrustedServer([signature |-> JsonStr(SigGood), kid |-> JsonStr("key-1")])) }
    \cup
    \* requests of a single impression
    { [OpenRTBRequest("req-4", st, e) EXCEPT !.imp = <<@[1]>>] :
          st \in {None, Some([domain |-> Some(VerifyDomain)])},
          e \in {None, TrustedServer([signature |-> JsonStr(SigGood), kid |-> JsonStr("key-4")])} }

\* the tasks that serve auction requests; the other tasks use the key-set
\* cache on behalf of requests whose outcome is not followed
Handlers == {"t1"}

\* a task outside handle_openrtb_auction
\* (jwks: what get_cached_jwks returned; ret: what verify_request_id_signature
\* returned; status: signature_status; resp: what the handler returns; the
\* host of the ForwardedHost extractor is "host.test")
IdleAuction ==
    [pc |-> "idle", req |-> None, jwks |-> None, ret |-> None, status |-> None, resp |-> None]

\* variant: a request whose signature did not verify is refused
AuctionResponseOrRefuse(req, host, signature_status) ==
    IF signature_status.status = "Failed"
    THEN Err([status |-> 401, message |-> signature_status.reason])
    ELSE Ok([status |-> 200, content_type |-> "application/json",
             body |-> auction_build_openrtb_response(req, host),
             signature |-> signature_status])

\* lines 273-284: the Ok(response) of handle_openrtb_auction.  The response
\* body is the serialised build_openrtb_response(&req, &host, ..); the
\* signature_status handed to that call is kept beside the bids it builds.
AuctionResponse(req, host, signature_status) ==
    Ok([status |-> 200, content_type |-> "application/json",
        body |-> auction_build_openrtb_response(req, host),
        signature |-> signature_status])

AuctionInit == auction = [c \in Callers |-> IdleAuction] /\ synth = None

\* variant: a request without site.domain is verified against an empty domain
SiteDomainOrEmpty(req) ==
    IF IsSome(req.site) /\ IsSome(req.site.v.domain) THEN req.site.v.domain ELSE Some("")

\* variant: a request without a complete signature block is not verified
SiteDomainIfSigned(req) ==
    IF SignatureFields(req.ext).ok /\ IsSome(req.site) THEN req.site.v.domain ELSE None

\* req.site.as_ref().and_then(|s| s.domain.as_deref())
SiteDomain(req) == IF IsSome(req.site) THEN req.site.v.domain ELSE None

\* handle_openrtb_auction up to its first suspension: without site.domain the
\* outcome is NotPresent; with one, verify_request_id_signature runs until it
\* either fails on the fields or calls get_cached_jwks(domain)
HandleAuction(c, req) ==
    /\ auction[c].pc = "idle"
    /\ callers[c].pc = "idle"
    /\ \E domain \in {SiteDomain(req)} :
         IF ~IsSome(domain)
         THEN /\ auction' = [auction EXCEPT ![c] =
                    [pc |-> "responded", req |-> Some(req), jwks |-> None, ret |-> None,
                     status |-> Some(NotPresent("No site.domain present in request")),
                     resp |-> Some(AuctionResponse(req, "host.test",
                                 NotPresent("No site.domain present in request")))]]
              /\ UNCHANGED callers
         ELSE \E fields \in {SignatureFields(req.ext)} :
              IF ~fields.ok
              THEN /\ auction' = [auction EXCEPT ![c] =
                         [pc |-> "responded", req |-> Some(req), jwks |-> None,
                          ret |-> Some(fields),
                          status |-> Some(StatusFailed(to_string(fields.e))),
                          resp |-> Some(AuctionResponse(req, "host.test",
                                      StatusFailed(to_string(fields.e))))]]
                   /\ UNCHANGED callers
              ELSE /\ TotalFetches + Cardinality(InCall) < MaxFetches
                   /\ auction' = [auction EXCEPT ![c] =
                         [pc |-> "jwks", req |-> Some(req), jwks |-> None,
                          ret |-> None, status |-> None, resp |-> None]]
                   /\ callers' = [callers EXCEPT ![c] =
                         [IdleCaller EXCEPT !.pc = "lock1", !.domain = domain.v]]
    /\ UNCHANGED <<cache, now, lock, fetches, served, mvars, synth>>

\* get_cached_jwks returned: the rest of verify_request_id_signature and the
\* match of lines 252-263
VerifyResume(c) ==
    /\ auction[c].pc = "jwks"
    /\ callers[c].pc = "done"
    /\ \E verified \in {verify_request_id_signature(
                            auction[c].req.v.id, auction[c].req.v.ext, callers[c].ret)} :
       \E signature_status \in {IF verified.ok THEN Verified(verified.v)
                                 ELSE StatusFailed(to_string(verified.e))} :
         auction' = [auction EXCEPT
                        ![c].pc = "responded",
                        ![c].jwks = Some(callers[c].ret),
                        ![c].ret = Some(verified),
                        ![c].status = Some(signature_status),
                        ![c].resp = Some(AuctionResponse(auction[c].req.v, "host.test",
                                                         signature_status))]
    /\ callers' = [callers EXCEPT ![c] = IdleCaller]
    /\ UNCHANGED <<cache, now, lock, fetches, served, mvars, synth>>

\* the response, with the signature status as metadata, is returned
Respond(c) ==
    /\ auction[c].pc = "responded"
    /\ auction' = [auction EXCEPT ![c] = IdleAuction]
    /\ UNCHANGED <<jvars, mvars, synth>>

-----------------------------------------------------------------------------
(* Specifications                                                          *)

\* the mediation engine before any call
MediateIdle ==
    /\ request = MediationRequest("test-auction", <<"imp1">>, << >>, None)
    /\ base_host = "test.host"
    /\ phase = "idle"
    /\ result = None
    /\ renderCalls = << >>

\* winner selection: bids with resolvable prices, with and without a floor
InitMediate ==
    /\ MediateInit({None, Some(MediationConfig(None)), Some(MediationConfig(Some(Price250)))})
    /\ JwksInit
    /\ AuctionInit
NextMediate == AddBidderResponse \/ AddBid(PricingBids) \/ mediate_auction
SpecMediate == InitMediate /\ [][NextMediate]_vars

\* price resolution: encoded and missing prices
InitPrice ==
    /\ MediateInit({None, Some(MediationConfig(Some(Price300)))})
    /\ JwksInit
    /\ AuctionInit
NextPrice == AddBidderResponse \/ AddBid(EncodedBids) \/ mediate_auction
SpecPrice == InitPrice /\ [][NextPrice]_vars

\* creative materialisation: bids with and without markup
InitCreative == MediateInit({None}) /\ JwksInit /\ AuctionInit
NextCreative == AddBidderResponse \/ AddBid(CreativeBids) \/ mediate_auction
SpecCreative == InitCreative /\ [][NextCreative]_vars

\* the key-set cache under concurrent callers
InitJwks == MediateIdle /\ JwksInit /\ AuctionInit
NextJwks ==
    \/ \E c \in Callers : \E d \in Domains : Call(c, d)
    \/ \E c \in Callers : LockForLookup(c)
    \/ \E c \in Callers : Lookup(c)
    \/ \E c \in Callers : FetchOk(c)
    \/ \E c \in Callers : FetchErr(c)
    \/ \E c \in Callers : LockForInsert(c)
    \/ \E c \in Callers : Insert(c)
    \/ \E c \in Callers : Return(c)
    \/ Advance
    \/ \E d \in Domains : Rotate(d)
SpecJwks == InitJwks /\ [][NextJwks]_vars

\* auction requests with signature verification against the key-set cache
InitVerify ==
    /\ MediateIdle
    /\ AuctionInit
    /\ cache = << >>
    /\ now = 0
    /\ lock = None
    /\ callers = [c \in Callers |-> IdleCaller]
    /\ fetches = [d \in Domains |-> 0]
    /\ served = [d \in Domains |-> JwksSigned]
NextVerify ==
    \/ \E c \in Handlers : \E req \in AuctionRequests : HandleAuction(c, req)
    \/ \E c \in Callers \ Handlers : \E d \in Domains : Call(c, d)
    \/ \E c \in Callers \ Handlers : Return(c)
    \/ \E c \in Callers : LockForLookup(c)
    \/ \E c \in Callers : Lookup(c)
    \/ \E c \in Callers : FetchOk(c)
    \/ \E c \in Callers : FetchErr(c)
    \/ \E c \in Callers : LockForInsert(c)
    \/ \E c \in Callers : Insert(c)
    \/ \E c \in Handlers : VerifyResume(c)
    \/ \E c \in Handlers : Respond(c)
    \/ Advance
SpecVerify == InitVerify /\ [][NextVerify]_vars

\* the key-set cache with the progress the runtime gives: code between two
\* suspension points runs on, a started fetch returns (successfully or not),
\* and a caller blocked in lock() gets the mutex after finitely many releases
FairJwks ==
    \A c \in Callers :
        /\ WF_vars(Lookup(c))
        /\ WF_vars(Insert(c))
        /\ WF_vars(FetchOk(c) \/ FetchErr(c))
        /\ SF_vars(LockForLookup(c))
        /\ SF_vars(LockForInsert(c))
\* the calls, the clock and the fetch outcomes; the served key sets stay put
NextJwksFair ==
    \/ \E c \in Callers : \E d \in Domains : Call(c, d)
    \/ \E c \in Callers : LockForLookup(c)
    \/ \E c \in Callers : Lookup(c)
    \/ \E c \in Callers : FetchOk(c)
    \/ \E c \in Callers : FetchErr(c)
    \/ \E c \in Callers : LockForInsert(c)
    \/ \E c \in Callers : Insert(c)
    \/ \E c \in Callers : Return(c)
    \/ Advance
SpecJwksFair == InitJwks /\ [][NextJwksFair]_vars /\ FairJwks

\* the bid synthesizer: one call of one of its functions
NextAuction == Synthesize \/ BuildAps \/ DecodePrice \/ Cpm
SpecAuction == InitJwks /\ [][NextAuction]_vars

-----------------------------------------------------------------------------
(* Properties of mediate_auction                                           *)

\* the bids of the request in encounter order: bidder responses in request
\* order, the bids of one response in their order
Submitted == Flatten(request.ext.bidder_responses, 1)

\* a price is resolvable: the encoded price decodes, or there is no encoded
\* price and a plain one
Resolvable(bid) ==
    IF IsSome(bid.encoded_price) THEN IsSome(decode_aps_price(bid.encoded_price.v))
    ELSE IsSome(bid.price)

\* the resolved price of a bid with a resolvable price
PriceOf(bid) ==
    IF IsSome(bid.encoded_price) THEN decode_aps_price(bid.encoded_price.v).v
    ELSE bid.price.v

\* the configured price_floor, 0 when the config or the floor is absent
EffectiveFloor ==
    IF request.ext.config = None THEN Fin(0, 0)
    ELSE IF request.ext.config.v.price_floor = None THEN Fin(0, 0)
    ELSE request.ext.config.v.price_floor.v

\* positions of the bids for impression X whose price is at or above the floor
Eligible(flat, X) ==
    {i \in 1..Len(flat) :
        flat[i].bid.imp_id = X /\ FGe(PriceOf(flat[i].bid), EffectiveFloor)}

\* those of them that no eligible bid for X beats
Top(flat, X) ==
    {i \in Eligible(flat, X) :
        \A j \in Eligible(flat, X) : ~FGt(PriceOf(flat[j].bid), PriceOf(flat[i].bid))}

Earliest(S) == CHOOSE i \in S : \A j \in S : i <= j

Succeeded == phase = "done" /\ result.ok
Failed == phase = "done" /\ ~result.ok

\* positions <<seat, bid>> of the bids of the response
OutBids ==
    UNION {{<<s, j>> : j \in 1..Len(result.v.seatbid[s].bid)} :
           s \in 1..Len(result.v.seatbid)}
Out(p) == result.v.seatbid[p[1]].bid[p[2]]
Seat(p) == result.v.seatbid[p[1]].seat.v
OutFor(X) == {p \in OutBids : Out(p).impid = X}

\* the output bid at p is made from the submitted bid e of bidder e.bidder
MadeFrom(p, e) ==
    /\ Seat(p) = e.bidder
    /\ Out(p).impid = e.bid.imp_id
    /\ Out(p).crid = e.bid.crid
    /\ Out(p).w = Some(e.bid.w)
    /\ Out(p).h = Some(e.bid.h)
    /\ Out(p).adomain = e.bid.adomain

\* C1: when several bids for one impression pass the floor and share the
\* highest resolved price, the output bid of that impression is made from
\* the earliest of them in encounter order.
C1_TieEarliestWins ==
    Succeeded =>
        \A flat \in {Submitted} : \A p \in OutBids :
            \A top \in {Top(flat, Out(p).impid)} :
                Cardinality(top) >= 2 => MadeFrom(p, flat[Earliest(top)])

\* a tie between bids of different bidders has been decided
C1_Witness ==
    /\ Succeeded
    /\ \E p \in OutBids :
         \E i, j \in Top(Submitted, Out(p).impid) :
            i < j /\ Submitted[i].bidder # Submitted[j].bidder

\* C2: no bid for the impression at or above the floor has a resolved price
\* greater than the price of the output bid, and the output bid carries the
\* resolved price of the bid it is made from.
C2_HighestPriceWins ==
    Succeeded =>
        \A flat \in {Submitted} : \A p \in OutBids :
            \A el \in {Eligible(flat, Out(p).impid)} :
                /\ \A i \in el : ~FGt(PriceOf(flat[i].bid), Out(p).price)
                /\ \E i \in el : MadeFrom(p, flat[i]) /\ Out(p).price = PriceOf(flat[i].bid)

\* a bid with an encoded price has beaten a lower bid that passed the floor
C2_Witness ==
    /\ Succeeded
    /\ \E p \in OutBids :
         /\ Out(p).crid = Some("creative-aps")
         /\ Out(p).price = Price250
         /\ \E i \in Eligible(Submitted, Out(p).impid) :
                FLt(PriceOf(Submitted[i].bid), Out(p).price)

\* C3: no output bid is priced below the effective floor, whatever its
\* impression, and an impression with a bid priced exactly at the floor has
\* an output bid.
C3_FloorInclusive ==
    Succeeded =>
        \A flat \in {Submitted} :
            /\ \A p \in OutBids : ~FLt(Out(p).price, EffectiveFloor)
            /\ \A i \in 1..Len(flat) :
                  partial_cmp(PriceOf(flat[i].bid), EffectiveFloor) = "equal"
                      => OutFor(flat[i].bid.imp_id) # {}

\* a bid priced exactly at a configured floor has won, next to a dropped one
C3_Witness ==
    /\ Succeeded
    /\ request.ext.config # None
    /\ EffectiveFloor = Price250
    /\ \E p \in OutBids : Out(p).price = EffectiveFloor
    /\ \E i \in 1..Len(Submitted) : FLt(PriceOf(Submitted[i].bid), EffectiveFloor)

\* C4: a request holding a bid with an unresolvable price yields an error
\* and no response.
C4_UnresolvablePriceFails ==
    phase = "done" =>
        ((\E i \in 1..Len(Submitted) : ~Resolvable(Submitted[i].bid)) => ~result.ok)

\* the call failed on a bid that comes after a valid bid for another
\* impression
C4_Witness ==
    /\ Failed
    /\ \E i, j \in 1..Len(Submitted) :
         /\ i < j
         /\ Resolvable(Submitted[i].bid)
         /\ FGe(PriceOf(Submitted[i].bid), EffectiveFloor)
         /\ ~Resolvable(Submitted[j].bid)
         /\ Submitted[i].bid.imp_id # Submitted[j].bid.imp_id

\* C5: when every price is resolvable the call returns a response with the
\* id of the request and currency USD, and that response has no seat when no
\* bid is at or above the floor.
C5_OnlyPriceErrorsFail ==
    phase = "done" =>
        \A flat \in {Submitted} :
            (\A i \in 1..Len(flat) : Resolvable(flat[i].bid)) =>
                /\ result.ok
                /\ result.v.id = request.id
                /\ result.v.cur = Some("USD")
                /\ (\A i \in 1..Len(flat) : ~FGe(PriceOf(flat[i].bid), EffectiveFloor))
                      => result.v.seatbid = << >>

\* a response without seats was returned for bids that are all below the floor
C5_Witness ==
    /\ Succeeded
    /\ result.v.seatbid = << >>
    /\ \E i \in 1..Len(Submitted) : FLt(PriceOf(Submitted[i].bid), EffectiveFloor)

\* C6: an impression id carried by a submitted bid has exactly one output bid
\* when one of its bids is at or above the floor and none otherwise, and no
\* other impression id occurs in the response.
C6_OneBidPerImpression ==
    Succeeded =>
        \A flat \in {Submitted} :
            /\ \A i \in 1..Len(flat) :
                  Cardinality(OutFor(flat[i].bid.imp_id)) =
                      IF Eligible(flat, flat[i].bid.imp_id) # {} THEN 1 ELSE 0
            /\ \A p \in OutBids : \E i \in 1..Len(flat) : flat[i].bid.imp_id = Out(p).impid

\* an impression the request does not declare has a winner while another
\* impression with a bid has none
C6_Witness ==
    /\ Succeeded
    /\ \E p \in OutBids : \A k \in 1..Len(request.imp) : request.imp[k] # Out(p).impid
    /\ \E i \in 1..Len(Submitted) : OutFor(Submitted[i].bid.imp_id) = {}

\* C7: every seat holds a bid, no two seats have the same name, and every
\* output bid sits in the seat named after the bidder of the winning bid.
C7_SeatsGroupWinners ==
    Succeeded =>
        \A flat \in {Submitted} :
            /\ \A s \in 1..Len(result.v.seatbid) : Len(result.v.seatbid[s].bid) >= 1
            /\ \A s, t \in 1..Len(result.v.seatbid) :
                  s # t => result.v.seatbid[s].seat # result.v.seatbid[t].seat
            /\ \A p \in OutBids :
                  Seat(p) = flat[Earliest(Top(flat, Out(p).impid))].bidder

\* two bidder responses of one name have each won an impression: one seat
C7_Witness ==
    /\ Succeeded
    /\ Len(request.ext.bidder_responses) = 2
    /\ request.ext.bidder_responses[1].bidder = request.ext.bidder_responses[2].bidder
    /\ Len(request.ext.bidder_responses[1].bids) = 1
    /\ Len(result.v.seatbid) = 1
    /\ Len(result.v.seatbid[1].bid) = 2

\* the request that keeps of req only the bids for impression X, one bidder
\* response per bid, in encounter order
OnlyBidsFor(req, X) ==
    LET sel == SelectSeq(Flatten(req.ext.bidder_responses, 1),
                         LAMBDA e : e.bid.imp_id = X)
    IN MediationRequest(req.id, req.imp,
                        [i \in 1..Len(sel) |->
                            [bidder |-> sel[i].bidder, bids |-> <<sel[i].bid>>]],
                        req.ext.config)

\* bidder, price and bid of a winner
WinnerView(bidder, price, crid, w, h) ==
    [bidder |-> bidder, price |-> price, crid |-> crid, w |-> w, h |-> h]

\* C8: the winner of an impression (bidder, price, bid) is the winner that
\* the floor and the ordered bids for that impression yield by themselves:
\* requests that agree on both have the same winner for it.
C8_ImpressionsIndependent ==
    Succeeded =>
        \A X \in ImpIds : \A alone \in {Winners(OnlyBidsFor(request, X))} :
            {WinnerView(Seat(p), Out(p).price, Out(p).crid, Out(p).w.v, Out(p).h.v) :
                p \in OutFor(X)}
            = IF X \in DOMAIN alone.v
              THEN {WinnerView(alone.v[X].bidder, alone.v[X].resolved_price,
                               alone.v[X].bid.crid, alone.v[X].bid.w, alone.v[X].bid.h)}
              ELSE {}

\* an impression has its winner although another impression of the request
\* has a higher winning price
C8_Witness ==
    /\ Succeeded
    /\ \E p, q \in OutBids :
         Out(p).impid # Out(q).impid /\ FLt(Out(p).price, Out(q).price)

\* C9: markup carried by the winning bid is the output markup and is not
\* rendered; without it the output markup is iframe_html of the host, the
\* creative id (the impression id when absent), the size and the resolved
\* price; every output bid has markup.
C9_CreativeMaterialised ==
    Succeeded =>
        \A flat \in {Submitted} :
            /\ \A p \in OutBids :
                 \A e \in {flat[Earliest(Top(flat, Out(p).impid))]} :
                    /\ IsSome(Out(p).adm)
                    /\ IsSome(e.bid.adm) => Out(p).adm = e.bid.adm
                    /\ ~IsSome(e.bid.adm) =>
                          Out(p).adm = Some(iframe_html(
                              base_host,
                              IF IsSome(e.bid.crid) THEN e.bid.crid.v ELSE e.bid.imp_id,
                              e.bid.w, e.bid.h, Some(PriceOf(e.bid))))
            /\ Len(renderCalls) =
                  Cardinality({p \in OutBids :
                      ~IsSome(flat[Earliest(Top(flat, Out(p).impid))].bid.adm)})
            /\ \A k \in 1..Len(renderCalls) :
                  \E p \in OutBids :
                     /\ ~IsSome(flat[Earliest(Top(flat, Out(p).impid))].bid.adm)
                     /\ Out(p).adm = Some(iframe_html(
                            renderCalls[k].host, renderCalls[k].crid,
                            renderCalls[k].w, renderCalls[k].h, renderCalls[k].bid))

\* one winner kept its markup, another was rendered under its impression id
C9_Witness ==
    /\ Succeeded
    /\ Len(renderCalls) = 1
    /\ \E p, q \in OutBids :
         /\ Out(p).adm = Markup
         /\ Out(q).adm # Markup
         /\ Out(q).adm.v.CRID = Out(q).impid

-----------------------------------------------------------------------------
(* Properties of get_cached_jwks                                           *)

\* caller c completes its cache lookup in this step
LooksUp(c) == callers[c].pc = "lookup" /\ callers'[c].pc # "lookup"

\* the cache holds an entry for d that is less than 10 minutes old
HoldsFresh(d) == d \in DOMAIN cache /\ now - cache[d].fetched_at < 10

\* C10: a call issues a fetch exactly when, at its cache lookup, the cache
\* holds no entry for the domain less than 10 minutes old; otherwise it
\* returns the cached key set without a fetch; no other step issues a fetch.
C10_FetchIffNoFreshEntry ==
    [][/\ \A c \in Callers :
            LooksUp(c) =>
                /\ HoldsFresh(callers[c].domain) =>
                      /\ callers'[c].pc = "done"
                      /\ callers'[c].ret = Ok(cache[callers[c].domain].jwks)
                      /\ fetches' = fetches
                /\ ~HoldsFresh(callers[c].domain) =>
                      /\ callers'[c].pc = "fetch"
                      /\ fetches' = [fetches EXCEPT ![callers[c].domain] = @ + 1]
       /\ (\A c \in Callers : ~LooksUp(c)) => fetches' = fetches]_vars

\* after one fetch for a domain, one call was answered from the cache and a
\* later call, made when the entry is exactly 10 minutes old, fetches again
C10_Witness ==
    \E c1, c2 \in Callers : \E d \in Domains :
        /\ callers[c1].pc = "done" /\ callers[c1].hit /\ callers[c1].domain = d
        /\ callers[c2].pc = "fetch" /\ callers[c2].domain = d
        /\ d \in DOMAIN cache
        /\ now - cache[d].fetched_at = 10
        /\ callers[c1].ret = Ok(cache[d].jwks)
        /\ fetches[d] = 2

\* the fetch of caller c returns in this step
FetchReturns(c) == callers[c].pc = "fetch" /\ callers'[c].pc # "fetch"

\* C11: when the key-set fetch of a call fails (transport error, status
\* other than 200, unparseable body) the call returns an HttpError: it does
\* not return the expired entry still cached for the domain, it does not turn
\* the failure into an empty key set, and it stores nothing. A call returns a
\* key set only from a fresh cache hit or after inserting what its own
\* successful fetch delivered.
C11_FailedFetchIsError ==
    [][\A c \in Callers :
          /\ FetchReturns(c) =>
                \/ /\ callers'[c].pc = "lock2"
                   /\ callers'[c].jwks = Some(served[callers[c].domain])
                \/ /\ callers'[c].pc = "done"
                   /\ ~callers'[c].ret.ok
                   /\ callers'[c].ret.e.kind = "HttpError"
                   /\ callers'[c].ret.e.msg \in
                          {"JWKS fetch failed", "JWKS server returned status",
                           "JWKS parse failed"}
                   /\ cache' = cache
          /\ (callers[c].pc # "done" /\ callers'[c].pc = "done" /\ callers'[c].ret.ok) =>
                \/ callers[c].pc = "lookup" /\ HoldsFresh(callers[c].domain)
                \/ callers[c].pc = "insert" /\ callers'[c].ret = Ok(callers[c].jwks.v)
      ]_vars

\* a call whose fetch failed has returned the error although an expired entry
\* for its domain is still in the cache
C11_Witness ==
    \E c \in Callers :
        /\ callers[c].pc = "done"
        /\ ~callers[c].ret.ok
        /\ callers[c].ret.e.msg = "JWKS server returned status"
        /\ callers[c].domain \in DOMAIN cache
        /\ now - cache[callers[c].domain].fetched_at >= 10
        /\ fetches[callers[c].domain] = 2

\* the callers that are inside a critical section of get_cached_jwks
InCritical == {c \in Callers : callers[c].pc \in {"lookup", "insert"}}

\* C12: the cache lock is held exactly during the lookup and during the
\* insert: a caller whose fetch is in flight, or that waits to insert, does
\* not hold it, so a caller waiting for the lock finds it free whenever no
\* caller is inside a lookup or an insert, whatever fetches are pending.
C12_LockNotHeldAcrossFetch ==
    /\ \A c \in Callers : lock = Some(c) <=> c \in InCritical
    /\ Cardinality(InCritical) <= 1
    /\ lock # None => \E c \in Callers : lock = Some(c)
    /\ \A c \in Callers :
          (callers[c].pc \in {"lock1", "lock2"} /\ InCritical = {}) => lock = None

\* while the fetch of one caller for a domain is in flight, another caller
\* holds the lock in its lookup of a different domain and finds a fresh entry
C12_Witness ==
    \E c1, c2 \in Callers :
        /\ callers[c1].pc = "fetch"
        /\ callers[c2].pc = "lookup"
        /\ lock = Some(c2)
        /\ callers[c1].domain # callers[c2].domain
        /\ CacheHit(callers[c2].domain)

\* the other callers whose fetch for domain d has been issued and whose
\* insert has not happened yet
Refreshing(c, d) ==
    {o \in Callers \ {c} :
        callers[o].domain = d /\ callers[o].pc \in {"fetch", "lock2", "insert"}}

\* C13: there is no single-flight guard: a lookup that finds the entry of its
\* domain missing or expired issues its own fetch also when another call is
\* already refreshing that domain, so one expiry can cause several fetches.
C13_NoSingleFlight ==
    [][\A c \in Callers :
          (/\ LooksUp(c)
           /\ ~HoldsFresh(callers[c].domain)
           /\ Refreshing(c, callers[c].domain) # {}) =>
              /\ callers'[c].pc = "fetch"
              /\ fetches' = [fetches EXCEPT ![callers[c].domain] = @ + 1]
              /\ \A o \in Refreshing(c, callers[c].domain) : callers'[o] = callers[o]
      ]_vars

\* two calls are fetching the same domain at once, both issued while the
\* domain had no entry
C13_Witness ==
    \E c1, c2 \in Callers :
        /\ c1 # c2
        /\ callers[c1].pc = "fetch"
        /\ callers[c2].pc = "fetch"
        /\ callers[c1].domain = callers[c2].domain
        /\ callers[c1].domain \notin DOMAIN cache
        /\ fetches[callers[c1].domain] = 2

\* caller c performs its insert in this step
Inserts(c) == callers[c].pc = "insert" /\ callers'[c].pc # "insert"

\* C14: the cache maps each domain to at most one entry; an entry is never
\* removed; every change of the cache is the insert of one call, which
\* creates or replaces the entry of its domain by the whole key set that
\* call fetched together with the time of this insert and leaves the other
\* entries alone. So an entry is always that of the last insert for its
\* domain, and its key set and timestamp stem from the same insert.
C14_EntryIsLastInsert ==
    [][/\ DOMAIN cache \subseteq Domains
       /\ \A d \in DOMAIN cache :
             /\ d \in DOMAIN cache'
             /\ cache[d].jwks \in ServedSets
             /\ cache[d].fetched_at <= now
       /\ \A c \in Callers :
             Inserts(c) =>
                /\ callers[c].domain \in DOMAIN cache'
                /\ cache'[callers[c].domain] = [jwks |-> callers[c].jwks.v, fetched_at |-> now]
                /\ callers'[c].ret = Ok(callers[c].jwks.v)
                /\ \A d \in DOMAIN cache' \ {callers[c].domain} :
                      d \in DOMAIN cache /\ cache'[d] = cache[d]
       /\ (\A c \in Callers : ~Inserts(c)) => cache' = cache
      ]_vars

\* racing refreshes of one domain: two calls fetched different key sets, the
\* server now serves the second one, and the entry is the older key set with
\* the later timestamp because its insert came last
C14_Witness ==
    \E c1, c2 \in Callers : \E d \in Domains :
        /\ callers[c1].pc = "done" /\ callers[c1].domain = d /\ ~callers[c1].hit
        /\ callers[c2].pc = "done" /\ callers[c2].domain = d /\ ~callers[c2].hit
        /\ callers[c1].ret = Ok(Jwks1)
        /\ callers[c2].ret = Ok(Jwks2)
        /\ served[d] = Jwks2
        /\ d \in DOMAIN cache
        /\ cache[d] = [jwks |-> Jwks1, fetched_at |-> 5]
        /\ fetches[d] = 2

-----------------------------------------------------------------------------
(* Properties of verify_request_id_signature and handle_openrtb_auction    *)

\* the handlers that have finished a request
Responded == {c \in Handlers : auction[c].pc = "responded"}

\* the request of handler c, its extension and its site.domain
Req(c) == auction[c].req.v
HasDomain(r) == r.site # None /\ r.site.v.domain # None

\* the extension is an object with an object member trusted_server
HasBlock(r) ==
    /\ r.ext # None
    /\ r.ext.v.t = "obj"
    /\ "trusted_server" \in DOMAIN r.ext.v.f
    /\ r.ext.v.f["trusted_server"].t = "obj"

\* the block has a string member of that name
HasStringMember(r, name) ==
    /\ HasBlock(r)
    /\ name \in DOMAIN r.ext.v.f["trusted_server"].f
    /\ r.ext.v.f["trusted_server"].f[name].t = "str"

\* verify_request_id_signature was called for the request of c and returned
\* an error of that kind
ReturnedError(c, kind) ==
    /\ auction[c].ret # None
    /\ ~auction[c].ret.v.ok
    /\ auction[c].ret.v.e.kind = kind

\* C16: for a request with a domain, verify_request_id_signature reports a
\* missing signature block by field: no extension object, no trusted_server
\* block, or no signature string gives InvalidSignature; a signature string
\* without a kid string gives KeyNotFound, a different kind.
C16_MissingFieldsByKind ==
    \A c \in Responded :
        HasDomain(Req(c)) =>
            /\ ~HasStringMember(Req(c), "signature") => ReturnedError(c, "InvalidSignature")
            /\ (HasStringMember(Req(c), "signature") /\ ~HasStringMember(Req(c), "kid")) =>
                  /\ ReturnedError(c, "KeyNotFound")
                  /\ auction[c].ret.v.e.msg = "Missing ext.trusted_server.kid"
                  /\ auction[c].jwks = None

\* a request whose block has a signature string and a kid that is a number
\* was answered with KeyNotFound
C16_Witness ==
    \E c \in Responded :
        /\ HasDomain(Req(c))
        /\ HasStringMember(Req(c), "signature")
        /\ "kid" \in DOMAIN Req(c).ext.v.f["trusted_server"].f
        /\ ~HasStringMember(Req(c), "kid")
        /\ ReturnedError(c, "KeyNotFound")

\* the handlers whose verification obtained a key set
WithKeySet == {c \in Responded : auction[c].jwks # None /\ auction[c].jwks.v.ok}

\* the kid and the signature text the request of c supplies
Kid(c) == Req(c).ext.v.f["trusted_server"].f["kid"].s
SignatureText(c) == Req(c).ext.v.f["trusted_server"].f["signature"].s

\* the positions of the keys with the kid of c in the key set c obtained
Matches(c) ==
    {i \in 1..Len(auction[c].jwks.v.v.keys) : auction[c].jwks.v.v.keys[i].kid = Kid(c)}

\* the text of the first such key
KeyText(c) ==
    auction[c].jwks.v.v.keys[CHOOSE i \in Matches(c) : \A j \in Matches(c) : i <= j].x

\* texts that are not base64url without padding, or not of the right length
MalformedKeys == {PkPadded, PkShort}
MalformedSignatures == {SigTrailingBits, SigShort}

\* C17: with the key set obtained, each failure has its own kind: no key
\* with the kid gives KeyNotFound; a key text or signature text that is not
\* base64url without padding or not 32, respectively 64, bytes long gives
\* InvalidSignature; SignatureVerificationFailed is given only, and always,
\* for a well-formed key that is a curve point with a well-formed signature
\* that does not verify against the request id.
C17_FailureKinds ==
    \A c \in WithKeySet :
        /\ Matches(c) = {} <=> ReturnedError(c, "KeyNotFound")
        /\ (Matches(c) # {} /\ (KeyText(c) \in MalformedKeys
                                \/ SignatureText(c) \in MalformedSignatures))
              => ReturnedError(c, "InvalidSignature")
        /\ ReturnedError(c, "SignatureVerificationFailed") <=>
              /\ Matches(c) # {}
              /\ KeyText(c) = PkGood
              /\ SignatureText(c) \in {SigGood, SigZero}
              /\ ~(SignatureText(c) = SigGood /\ Req(c).id = "req-4")
        /\ auction[c].ret.v.ok \/ auction[c].ret.v.e.kind \in
              {"KeyNotFound", "InvalidSignature", "SignatureVerificationFailed"}

\* the signature that verifies for "req-4" was supplied with the request id
\* "req-1": well-formed key and signature, SignatureVerificationFailed
C17_Witness ==
    \E c \in WithKeySet :
        /\ Req(c).id = "req-1"
        /\ SignatureText(c) = SigGood
        /\ KeyText(c) = PkGood
        /\ ReturnedError(c, "SignatureVerificationFailed")

\* C18: verify_request_id_signature returns Ok only when every step
\* succeeded: the request has a signature string and a kid string, the key
\* set was obtained, its first key with that kid decodes to 32 bytes, the
\* signature decodes to 64 bytes, and the Ed25519 check over the UTF-8 bytes
\* of the request id passed; the value returned is the kid of the request.
C18_SuccessNeedsEveryStep ==
    \A c \in Responded :
        (auction[c].ret # None /\ auction[c].ret.v.ok) =>
            /\ HasDomain(Req(c))
            /\ HasStringMember(Req(c), "signature")
            /\ HasStringMember(Req(c), "kid")
            /\ c \in WithKeySet
            /\ Matches(c) # {}
            /\ B64UrlDecode(KeyText(c)) = Some(Rep(0, 32))
            /\ B64UrlDecode(SignatureText(c)) = Some(<<1>> \o Rep(0, 63))
            /\ Len(B64UrlDecode(KeyText(c)).v) = 32
            /\ Len(B64UrlDecode(SignatureText(c)).v) = 64
            /\ as_bytes[Req(c).id] = <<114, 101, 113, 45, 52>>
            /\ auction[c].ret.v.v = Kid(c)

\* a request signed for its id "req-4" was verified against the fetched key
\* set, which is now cached, and the kid "key-1" was returned
C18_Witness ==
    \E c \in Responded :
        /\ auction[c].ret = Some(Ok("key-1"))
        /\ Req(c).id = "req-4"
        /\ Kid(c) = "key-1"
        /\ fetches[VerifyDomain] = 1
        /\ VerifyDomain \in DOMAIN cache
        /\ cache[VerifyDomain].jwks = JwksSigned

\* C19: every auction request ends in exactly one signature outcome, created
\* when its handling ends and unchanged until the response is returned:
\* NotPresent when the request has no site.domain; Verified with the kid when
\* it has one and verification succeeds; Failed with the text of the error
\* when it has one and verification returns any error, a key-set fetch error
\* included.
C19_OneOutcomePerRequest ==
    [][\A c \in Handlers :
          /\ auction[c].pc # "responded" => auction[c].status = None
          /\ auction[c].pc = "responded" =>
                /\ auction[c].status # None
                /\ ~HasDomain(Req(c)) =>
                      /\ auction[c].status.v.status = "NotPresent"
                      /\ auction[c].ret = None
                /\ (HasDomain(Req(c)) /\ auction[c].ret.v.ok) =>
                      auction[c].status.v = [status |-> "Verified", kid |-> Kid(c)]
                /\ (HasDomain(Req(c)) /\ ~auction[c].ret.v.ok) =>
                      /\ auction[c].status.v.status = "Failed"
                      /\ auction[c].status.v.reason[1] =
                            (CASE auction[c].ret.v.e.kind = "KeyNotFound" -> "Key not found: "
                               [] auction[c].ret.v.e.kind = "InvalidSignature" -> "Invalid signature: "
                               [] auction[c].ret.v.e.kind = "HttpError" -> "HTTP error: "
                               [] OTHER -> "Signature verification failed")
                      /\ Len(auction[c].status.v.reason) = 2 =>
                            auction[c].status.v.reason[2] = auction[c].ret.v.e.msg
                /\ (auction[c].jwks # None /\ ~auction[c].jwks.v.ok) =>
                      /\ auction[c].ret.v = auction[c].jwks.v
                      /\ auction[c].status.v.status = "Failed"
                /\ auction'[c].status = auction[c].status \/ auction'[c] = IdleAuction
      ]_vars

\* a request with a domain and a complete signature block ended in Failed
\* because the fetch of the key set failed
C19_Witness ==
    \E c \in Responded :
        /\ HasDomain(Req(c))
        /\ HasStringMember(Req(c), "signature")
        /\ HasStringMember(Req(c), "kid")
        /\ auction[c].status = Some([status |-> "Failed",
                                     reason |-> <<"HTTP error: ", "JWKS fetch failed">>])

\* the request carries a signature string and a kid string
HasBothFields(r) == HasStringMember(r, "signature") /\ HasStringMember(r, "kid")

\* the outcome of the request of handler c
Outcome(c) == auction[c].status.v.status

\* C20 as stated: a request without an extension object, or whose extension
\* lacks the signature or the kid, ends in Failed; NotPresent arises only
\* for a request that has both fields but no trust domain.
C20_AsStated ==
    \A c \in Responded :
        /\ ~HasBothFields(Req(c)) => Outcome(c) = "Failed"
        /\ Outcome(c) = "NotPresent" => (HasBothFields(Req(c)) /\ ~HasDomain(Req(c)))

\* C20, amended: verification is attempted exactly for the requests with a
\* trust domain; such a request ends in Failed when it carries no extension
\* object or its extension lacks the signature or the kid; NotPresent arises
\* exactly for the requests without a trust domain, whether or not they
\* carry the two fields.
C20_NotPresentIffNoDomain ==
    \A c \in Responded :
        /\ HasDomain(Req(c)) <=> auction[c].ret # None
        /\ (HasDomain(Req(c)) /\ ~HasBothFields(Req(c))) =>
              /\ Outcome(c) = "Failed"
              /\ auction[c].jwks = None
        /\ Outcome(c) = "NotPresent" <=> ~HasDomain(Req(c))

\* a request with a trust domain and no extension object ended in Failed
C20_Witness ==
    \E c \in Responded :
        /\ HasDomain(Req(c))
        /\ Req(c).ext = None
        /\ auction[c].status =
              Some([status |-> "Failed",
                    reason |-> <<"Invalid signature: ", "Missing ext.trusted_server">>])

-----------------------------------------------------------------------------
(* Claims about the auction handler's response (SpecVerify)                *)

\* the bids of the response handler c returns
Bids(c) == auction[c].resp.v.v.body.seatbid[1].bid

-----------------------------------------------------------------------------
(* Claims about the bid synthesizer (SpecAuction)                          *)

\* a call of build_openrtb_response has returned; its request and its bids
Built == synth # None /\ synth.v.op = "build_openrtb_response"
SynthImps == synth.v.req.imp
SynthBids == synth.v.ret.seatbid[1].bid

\* the id a bid carries for an impression
ImpRef(imp) == IF imp.id = "" THEN "1" ELSE imp.id

\* C22: build_openrtb_response returns exactly one bid per impression of the
\* request, in the order of the impressions, and drops none: the i-th bid
\* refers to the i-th impression's id (to "1" when that id is empty) and its
\* creative id is "mocktioneer-" followed by that impression id.
C22_BidPerImpressionInOrder ==
    Built =>
        /\ Len(synth.v.ret.seatbid) = 1
        /\ Len(SynthBids) = Len(SynthImps)
        /\ \A i \in 1..Len(SynthImps) :
              /\ SynthBids[i].impid = ImpRef(SynthImps[i])
              /\ SynthBids[i].crid = Some("mocktioneer-" \o ImpRef(SynthImps[i]))

\* a request of an impression without id and without banner, followed by the
\* impression "imp-b", got the bids "1" and "imp-b" in that order
C22_Witness ==
    /\ Built
    /\ Len(SynthImps) = 2
    /\ SynthImps[1].id = "" /\ SynthImps[1].banner = None
    /\ SynthImps[2].id = "imp-b"
    /\ SynthBids[1].impid = "1" /\ SynthBids[1].crid = Some("mocktioneer-1")
    /\ SynthBids[2].impid = "imp-b" /\ SynthBids[2].crid = Some("mocktioneer-imp-b")

\* the standard table, as sizes
StandardSizes ==
    {<<300, 250>>, <<336, 280>>, <<728, 90>>, <<970, 90>>, <<160, 600>>, <<300, 600>>,
     <<970, 250>>, <<468, 60>>, <<320, 50>>, <<300, 50>>, <<320, 100>>, <<320, 480>>,
     <<480, 320>>}

\* the size an impression asks for
Resolved(imp) ==
    IF imp.banner # None /\ imp.banner.v.w # None /\ imp.banner.v.h # None
    THEN <<imp.banner.v.w.v, imp.banner.v.h.v>>
    ELSE IF imp.banner # None /\ imp.banner.v.format # None /\ imp.banner.v.format.v # << >>
    THEN <<imp.banner.v.format.v[1].w, imp.banner.v.format.v[1].h>>
    ELSE <<300, 250>>

\* C23: the size of every synthesized bid is a standard size.  It is the
\* banner's explicit width and height when both are given, else the first
\* declared format, else 300x250; when the size so resolved is not in the
\* standard table the bid carries 300x250 instead.
C23_SizeSnappedToStandard ==
    Built =>
        \A i \in 1..Len(SynthImps) :
            /\ SynthBids[i].w # None /\ SynthBids[i].h # None
            /\ <<SynthBids[i].w.v, SynthBids[i].h.v>> \in StandardSizes
            /\ <<SynthBids[i].w.v, SynthBids[i].h.v>> =
                  IF Resolved(SynthImps[i]) \in StandardSizes
                  THEN Resolved(SynthImps[i]) ELSE <<300, 250>>

\* an impression asking for 333x222 with a declared format 320x50 got a
\* 300x250 bid, and one with a width only got the size of its first format
C23_Witness ==
    /\ Built
    /\ Len(SynthImps) = 2
    /\ SynthImps[1].banner # None
    /\ SynthImps[1].banner.v.w = Some(333) /\ SynthImps[1].banner.v.h = Some(222)
    /\ SynthImps[1].banner.v.format # None
    /\ SynthBids[1].w = Some(300) /\ SynthBids[1].h = Some(250)
    /\ SynthImps[2].banner # None
    /\ SynthImps[2].banner.v.w = Some(728) /\ SynthImps[2].banner.v.h = None
    /\ SynthBids[2].w = Some(320) /\ SynthBids[2].h = Some(50)

\* the fixed CPM of each standard size
TableCpm ==
    [s \in StandardSizes |->
        CASE s = <<300, 250>> -> Fin(250, 2) [] s = <<336, 280>> -> Fin(260, 2)
          [] s = <<728, 90>> -> Fin(300, 2)  [] s = <<970, 90>> -> Fin(380, 2)
          [] s = <<160, 600>> -> Fin(320, 2) [] s = <<300, 600>> -> Fin(350, 2)
          [] s = <<970, 250>> -> Fin(420, 2) [] s = <<468, 60>> -> Fin(200, 2)
          [] s = <<320, 50>> -> Fin(180, 2)  [] s = <<300, 50>> -> Fin(170, 2)
          [] s = <<320, 100>> -> Fin(220, 2) [] s = <<320, 480>> -> Fin(280, 2)
          [] s = <<480, 320>> -> Fin(280, 2)]

\* imp.ext.mocktioneer.bid, when the impression has one
Override(imp) ==
    IF imp.ext # None /\ imp.ext.v.mocktioneer # None THEN imp.ext.v.mocktioneer.v.bid
    ELSE None

\* C24: the price of a synthesized bid is the impression's explicit override
\* (imp.ext.mocktioneer.bid) when one is present, and otherwise the table
\* price of the bid's size after snapping; the override, and only the
\* override, is passed as the price to the markup renderer (which writes it
\* with two decimals) and echoed in the bid's extension.
C24_PriceOverrideElseTable ==
    Built =>
        \A i \in 1..Len(SynthImps) :
            LET o == Override(SynthImps[i])
                b == SynthBids[i]
            IN /\ b.adm # None
               /\ b.adm.v.W = b.w.v /\ b.adm.v.H = b.h.v
               /\ o # None =>
                     /\ b.price = o.v
                     /\ b.adm.v.BID = Some(Fmt2(o.v))
                     /\ b.ext = Some([mocktioneer |-> [bid |-> o.v]])
               /\ o = None =>
                     /\ b.price = TableCpm[<<b.w.v, b.h.v>>]
                     /\ b.adm.v.BID = None
                     /\ b.ext = None

\* a 728x90 impression with the override 2.5 got a bid at 2.5 rendered as
\* 2.50, and a 333x222 impression with an empty mocktioneer extension got the
\* 300x250 table price and markup without a price
C24_Witness ==
    /\ Built
    /\ Len(SynthImps) = 2
    /\ Override(SynthImps[1]) = Some(Fin(25, 1))
    /\ SynthBids[1].w = Some(728)
    /\ SynthBids[1].price = Fin(25, 1)
    /\ SynthBids[1].adm.v.BID = Some([k |-> "fin", n |-> 250, e |-> 2])
    /\ SynthImps[2].ext = Some([mocktioneer |-> Some([bid |-> None])])
    /\ Resolved(SynthImps[2]) = <<333, 222>>
    /\ SynthBids[2].price = Fin(250, 2)
    /\ SynthBids[2].adm.v.BID = None

\* a call of the two decode_aps_price functions has returned
Decoded == synth # None /\ synth.v.op = "decode_aps_price"

\* strings that are not the encoding of a number: the empty string, text
\* outside the base64 alphabet, wrong padding, non-zero trailing bits, and the
\* base64 of "abc", of the byte 0xFF, of "2.5 " and of "."
NotNumbers ==
    {<< >>,
     <<"i","n","v","a","l","i","d","!","!","!">>,
     <<"n","o","t","-","b","a","s","e","6","4","!","!","!">>,
     <<"M","i","4","1","M","A","=">>,
     <<"M","i","4","1","M","B","=","=">>,
     <<"Y","W","J","j">>,
     <<"/","w","=","=">>,
     <<"M","i","4","1","I","A","=","=">>,
     <<"L","g","=","=">>}

\* C25: decoding an encoded price gives back the price that was encoded, for
\* every non-negative price, and decoding is total: for an input string that
\* is not the encoding of a number (not base64, not UTF-8, not numeric, or
\* empty) it returns none, and for every input it returns none or a price.
\* The decoders of auction.rs and of mediation.rs agree on every input.
C25_DecodeInvertsEncode ==
    Decoded =>
        /\ \A p \in Prices :
              (FGe(p, Fin(0, 0)) /\ synth.v.encoded = encode_aps_price(p)) =>
                  synth.v.ret = Some(p)
        /\ synth.v.encoded \in NotNumbers => synth.v.ret = None
        /\ \/ synth.v.ret = None
           \/ synth.v.ret.k = "some" /\ synth.v.ret.v.k \in {"fin", "nan", "inf", "ninf"}
        /\ synth.v.mediation = synth.v.ret

\* the encoding "MC4wMQ==" of 0.01 was decoded to 0.01
C25_Witness ==
    /\ Decoded
    /\ synth.v.encoded = <<"M","C","4","w","M","Q","=","=">>
    /\ synth.v.encoded = encode_aps_price(Fin(1, 2))
    /\ synth.v.ret = Some(Fin(1, 2))

\* a call of is_standard_size and get_cpm on one size has returned
Priced == synth # None /\ synth.v.op = "get_cpm"

\* cents is 1.50 + min(area / 100000, 3.00) rounded to two decimals: no
\* other whole number of cents is nearer (amounts in thousandths of a cent)
IsRoundedFallback(cents, area) ==
    LET exact == 150000 + (IF area < 300000 THEN area ELSE 300000)
        off == cents * 1000 - exact
    IN 0 - 500 <= off /\ off <= 500

\* C26: is_standard_size and get_cpm stay in lock-step over one table.  For
\* every (w, h) of the standard table is_standard_size is true and get_cpm
\* returns that size's fixed CPM; for every other (w, h) is_standard_size is
\* false and get_cpm returns 1.50 plus the smaller of area/100000 and 3.00,
\* rounded to 2 decimals.
C26_TableAndPriceInLockStep ==
    Priced =>
        /\ <<synth.v.w, synth.v.h>> \in StandardSizes =>
              /\ synth.v.standard
              /\ synth.v.ret = TableCpm[<<synth.v.w, synth.v.h>>]
        /\ <<synth.v.w, synth.v.h>> \notin StandardSizes =>
              /\ ~synth.v.standard
              /\ \E cents \in 0..450 :
                    /\ synth.v.ret = Fin(cents, 2)
                    /\ IsRoundedFallback(cents, synth.v.w * synth.v.h)

\* 333x222 is not standard and costs 2.24
C26_Witness ==
    /\ Priced
    /\ synth.v.w = 333 /\ synth.v.h = 222
    /\ ~synth.v.standard
    /\ synth.v.ret = Fin(224, 2)

\* a call of build_aps_response has returned; its slot responses
ApsBuilt == synth # None /\ synth.v.op = "build_aps_response"
SlotsOut == synth.v.ret.contextual.slots

\* the standard sizes of a slot, and the slots of the request that have one
StandardOf(slot) == {slot.sizes[i] : i \in 1..Len(slot.sizes)} \cap StandardSizes
Answerable == SelectSeq(synth.v.req.slots, LAMBDA slot : StandardOf(slot) # {})

\* C27: build_aps_response answers each slot at most once and in request
\* order.  A slot with at least one standard size gets one slot response
\* whose size is a standard size of that slot with the highest table CPM and
\* whose encoded price decodes to that CPM; a slot with no standard size is
\* skipped without failing the rest of the response.
C27_BestStandardSizePerSlot ==
    ApsBuilt =>
        /\ synth.v.ret.contextual.status = Some("ok")
        /\ Len(SlotsOut) = Len(Answerable)
        /\ \A j \in 1..Len(Answerable) :
              /\ SlotsOut[j].slot_id = Answerable[j].slot_id
              /\ \E s \in StandardOf(Answerable[j]) :
                    /\ SlotsOut[j].size = size_key(s[1], s[2])
                    /\ \A t \in StandardOf(Answerable[j]) : FGe(TableCpm[s], TableCpm[t])
                    /\ SlotsOut[j].amznbid # None
                    /\ auction_decode_aps_price(SlotsOut[j].amznbid.v) = Some(TableCpm[s])

\* slot1 with 333x222 only was skipped and slot2 with 320x50 and 320x480 was
\* answered with 320x480 at the encoded price "Mi44" (2.8)
C27_Witness ==
    /\ ApsBuilt
    /\ Len(synth.v.req.slots) = 2
    /\ synth.v.req.slots[1].sizes = <<(<<333, 222>>)>>
    /\ synth.v.req.slots[2].sizes = <<(<<320, 50>>), (<<320, 480>>)>>
    /\ Len(SlotsOut) = 1
    /\ SlotsOut[1].slot_id = "slot2"
    /\ SlotsOut[1].size = <<"3","2","0","x","4","8","0">>
    /\ SlotsOut[1].amznbid = Some(<<"M","i","4","4">>)

-----------------------------------------------------------------------------
(* Claims about the order of the verification checks (SpecVerify)          *)

\* the extension has a member trusted_server, of whatever type
BlockPresent(r) ==
    r.ext # None /\ r.ext.v.t = "obj" /\ "trusted_server" \in DOMAIN r.ext.v.f

\* verify_request_id_signature returned the error of that kind and detail
ReturnedDetail(c, kind, details) ==
    /\ ReturnedError(c, kind)
    /\ auction[c].ret.v.e.msg \in details

\* C28: the verification checks run in a fixed order and the first failing
\* check decides the error: extension block, signature field, kid field,
\* key-set lookup or fetch, kid search, public-key decoding, signature
\* decoding, cryptographic check.  A handler is inside get_cached_jwks only
\* for a request with a domain, a signature string and a kid string, and for
\* any other request no key set was asked for; an unknown kid is reported as
\* KeyNotFound even when the signature is also malformed.
C28_FirstFailingCheckDecides ==
    /\ \A c \in Handlers :
          (callers[c].pc # "idle" \/ auction[c].pc = "jwks") =>
              /\ auction[c].pc = "jwks"
              /\ HasDomain(Req(c))
              /\ HasBothFields(Req(c))
    /\ \A c \in Responded :
          /\ ~(HasDomain(Req(c)) /\ HasBothFields(Req(c))) => auction[c].jwks = None
          /\ HasDomain(Req(c)) =>
                IF ~BlockPresent(Req(c))
                THEN ReturnedDetail(c, "InvalidSignature", {"Missing ext.trusted_server"})
                ELSE IF ~HasStringMember(Req(c), "signature")
                THEN ReturnedDetail(c, "InvalidSignature",
                                    {"Missing ext.trusted_server.signature"})
                ELSE IF ~HasStringMember(Req(c), "kid")
                THEN ReturnedDetail(c, "KeyNotFound", {"Missing ext.trusted_server.kid"})
                ELSE IF auction[c].jwks = None THEN FALSE
                ELSE IF ~auction[c].jwks.v.ok THEN ReturnedError(c, "HttpError")
                ELSE IF Matches(c) = {} THEN ReturnedError(c, "KeyNotFound")
                ELSE IF KeyText(c) \in {PkPadded, PkShort, PkOffCurve}
                THEN ReturnedDetail(c, "InvalidSignature",
                        {"Invalid public key encoding", "Invalid public key length",
                         "Invalid public key"})
                ELSE IF SignatureText(c) \in MalformedSignatures
                THEN ReturnedDetail(c, "InvalidSignature",
                        {"Invalid signature encoding", "Invalid signature length"})
                ELSE IF ~(SignatureText(c) = SigGood /\ Req(c).id = "req-4")
                THEN ReturnedError(c, "SignatureVerificationFailed")
                ELSE auction[c].ret.v.ok

\* a request with the unknown kid "key-9" and a signature of the wrong
\* length was answered KeyNotFound from the key set obtained
C28_Witness ==
    \E c \in WithKeySet :
        /\ Kid(c) = "key-9"
        /\ SignatureText(c) = SigShort
        /\ ReturnedError(c, "KeyNotFound")

-----------------------------------------------------------------------------
(* Claims about failed key-set fetches (SpecJwks)                          *)

\* the call of c returns an error in this step
ReturnsError(c) ==
    /\ callers[c].pc # "done"
    /\ callers'[c].pc = "done"
    /\ ~callers'[c].ret.ok

\* C29: a failed key-set fetch leaves the cache exactly as it was, for the
\* fetched domain (an expired entry keeps its key set and its timestamp) and
\* for every other domain, and the failure is not remembered.  A call
\* returns an error only from a fetch of its own; it issues a fetch only
\* from its lookup and never goes back to the lookup or the fetch, so it
\* issues at most one; and a lookup that finds no fresh entry issues a new
\* fetch whatever failed before.
C29_FailedFetchLeavesCache ==
    [][\A c \in Callers :
          /\ ReturnsError(c) =>
                /\ callers[c].pc = "fetch"
                /\ cache' = cache
                /\ lock' = lock
                /\ fetches' = fetches
          /\ callers[c].pc \in {"fetch", "lock2", "insert"} =>
                /\ callers'[c].pc \in {"fetch", "lock2", "insert", "done"}
                /\ callers'[c].domain = callers[c].domain
                /\ fetches'[callers[c].domain] >= fetches[callers[c].domain]
          /\ callers'[c].pc = "fetch" /\ callers[c].pc # "fetch" =>
                callers[c].pc = "lookup"
          /\ \A d \in Domains : fetches'[d] # fetches[d] =>
                \E o \in Callers :
                    /\ callers[o].pc = "lookup" /\ callers'[o].pc = "fetch"
                    /\ callers[o].domain = d
                    /\ fetches' = [fetches EXCEPT ![d] = @ + 1]
          /\ (callers[c].pc = "lookup" /\ callers'[c].pc # "lookup"
              /\ ~CacheHit(callers[c].domain)) =>
                /\ callers'[c].pc = "fetch"
                /\ fetches'[callers[c].domain] = fetches[callers[c].domain] + 1
      ]_vars

\* the entry fetched at 0 has expired; a call for its domain failed to fetch
\* and the entry is still there with its key set and timestamp, while the
\* next call for the domain is in the third fetch issued for it
C29_Witness ==
    \E c1, c2 \in Callers : \E d \in Domains :
        /\ callers[c1].pc = "done" /\ callers[c1].domain = d
        /\ ~callers[c1].ret.ok
        /\ callers[c2].pc = "fetch" /\ callers[c2].domain = d
        /\ d \in DOMAIN cache
        /\ cache[d] = JwksCache(Jwks1, 0)
        /\ now = 10
        /\ fetches[d] = 3

-----------------------------------------------------------------------------
(* Claims about bids with two prices (SpecPrice)                           *)

\* the submitted bids that carry both a plain and an encoded price
TwoPriced == {i \in 1..Len(Submitted) :
                 IsSome(Submitted[i].bid.price) /\ IsSome(Submitted[i].bid.encoded_price)}

\* C30: a bid that carries both an encoded and a plain price is resolved by
\* its encoded price alone.  If the encoded price does not decode the call
\* fails, whatever the plain price; otherwise the bid is in the response only
\* at the decoded value, is absent when the decoded value is below the floor
\* even if the plain price is not, and its impression has a winner when the
\* decoded value is at or above the floor.
C30_EncodedPriceOverridesPlain ==
    phase = "done" =>
        \A i \in TwoPriced :
            \A e \in {Submitted[i]} :
              \A d \in {decode_aps_price(e.bid.encoded_price.v)} :
                /\ ~IsSome(d) => ~result.ok
                /\ (IsSome(d) /\ result.ok) =>
                      /\ \A p \in OutBids : MadeFrom(p, e) => Out(p).price = d.v
                      /\ ~FGe(d.v, EffectiveFloor) => ~\E p \in OutBids : MadeFrom(p, e)
                      /\ FGe(d.v, EffectiveFloor) => OutFor(e.bid.imp_id) # {}

\* the call failed on a bid whose encoded price does not decode, although its
\* plain price is at or above the floor and every other bid resolves
C30_Witness ==
    /\ Failed
    /\ \E i \in TwoPriced :
         /\ ~IsSome(decode_aps_price(Submitted[i].bid.encoded_price.v))
         /\ FGe(Submitted[i].bid.price.v, EffectiveFloor)
         /\ \A j \in 1..Len(Submitted) : j # i => Resolvable(Submitted[j].bid)
    /\ Len(Submitted) = 2

=============================================================================
